---- MODULE Spec2Model ----
(***************************************************************************)
(* A model of the per-collection document engine of local-db               *)
(* (src/lib/collection.js, src/lib/utils.js): identifier sanitisation and  *)
(* path mapping, set / get / del / all on the files of one collection,     *)
(* the backup written when a primary write fails, and the JSON text that   *)
(* is written to and parsed from the files.                                *)
(*                                                                         *)
(* Strings are sequences of one-character strings, so that the character   *)
(* transforms of the code (replace, includes, length, JSON.stringify and   *)
(* JSON.parse) are computed character by character.                        *)
(***************************************************************************)
EXTENDS Integers, Sequences, FiniteSets, Bags, TLC

(***************************************************************************)
(* Bounds of the model and constants of the program.                       *)
(***************************************************************************)
\* Identifiers of the wide identifier domain: every string over IdChars of
\* at most this many characters (plus the listed and the long ones below).
MaxShortLen == 2
\* Document files the wide specification lets the collection hold at once.
MaxDocsWide == 1
\* Primary writes the environment may fail in one behaviour.
MaxFaults == 1
\* The clock (Date.now()) runs from 0 to MaxTime.
MaxTime == 1
\* collection.js:37, the longest sanitised identifier _getDocPath accepts.
MaxIdLength == 200

(***************************************************************************)
(* Characters and strings.                                                 *)
(***************************************************************************)
Whitespace == {" ", "\n", "\t"}

\* String.prototype.includes for a non-empty needle.
Includes(s, sub) ==
  \E i \in 1..(Len(s) - Len(sub) + 1) :
    \A k \in 1..Len(sub) : s[i + k - 1] = sub[k]

\* s.trim() === ''
TrimIsEmpty(s) == \A i \in 1..Len(s) : s[i] \in Whitespace

\* String.prototype.endsWith
EndsWith(s, suffix) ==
  /\ Len(s) >= Len(suffix)
  /\ SubSeq(s, Len(s) - Len(suffix) + 1, Len(s)) = suffix

\* n copies of the character c.
Repeat(c, n) == [i \in 1..n |-> c]

Digit(d) == CASE d = 0 -> "0" [] d = 1 -> "1" [] d = 2 -> "2" [] d = 3 -> "3"
              [] d = 4 -> "4" [] d = 5 -> "5" [] d = 6 -> "6" [] d = 7 -> "7"
              [] d = 8 -> "8" [] d = 9 -> "9"

Digits == {"0", "1", "2", "3", "4", "5", "6", "7", "8", "9"}

DigitValue(c) == CHOOSE d \in 0..9 : Digit(d) = c

\* The decimal text of a natural number (template literal `${timestamp}`,
\* JSON.stringify of a number).
RECURSIVE NumToChars(_)
NumToChars(n) == IF n < 10 THEN <<Digit(n)>>
                 ELSE NumToChars(n \div 10) \o <<Digit(n % 10)>>

JsonSuffix == <<".", "j", "s", "o", "n">>
BakSuffix == <<".", "j", "s", "o", "n", ".", "b", "a", "k">>

(***************************************************************************)
(* Identifier sanitisation and path mapping (Collection._getDocPath).      *)
(***************************************************************************)
\* docId.replace(/[/\\]/g, '_')
ReplaceSeparators(s) ==
  [i \in 1..Len(s) |-> IF s[i] \in {"/", "\\"} THEN "_" ELSE s[i]]

ReservedChars == {"<", ">", ":", "\"", "|", "?", "*"}

IsNotReserved(c) == c \notin ReservedChars

\* .replace(/[<>:"|?*]/g, '')
StripReserved(s) == SelectSeq(s, IsNotReserved)

IsNotSeparator(c) == c \notin {"/", "\\"}

\* A variant that strips the separators like the reserved characters.
sanitizedDocIdStripsSeparators(docId) ==
  StripReserved(SelectSeq(docId, IsNotSeparator))

\* A variant that keeps the reserved characters.
sanitizedDocIdKeepsReserved(docId) == ReplaceSeparators(docId)

\* The sanitiser without the replacement of the separators.
sanitizedDocIdKeepsSeparators(docId) == StripReserved(docId)

\* const sanitizedDocId = docId.replace(/[/\\]/g, '_').replace(/[<>:"|?*]/g, '')
sanitizedDocId(docId) == StripReserved(ReplaceSeparators(docId))

\* path.join(dir, name): the name is split at the separators, '.' and empty
\* segments are dropped and '..' removes the segment before it.  A path is
\* the sequence of its segments.  Both '/' and '\' separate (win32; on posix
\* only '/' does, and the sanitised names hold neither).
PathSeparators == {"/", "\\"}

RECURSIVE SplitPath(_)
SplitPath(s) ==
  LET seps == {i \in 1..Len(s) : s[i] \in PathSeparators} IN
  IF seps = {} THEN <<s>>
  ELSE LET i == CHOOSE k \in seps : \A m \in seps : k <= m IN
       <<SubSeq(s, 1, i - 1)>> \o SplitPath(SubSeq(s, i + 1, Len(s)))

RECURSIVE Normalize(_, _)
Normalize(done, segs) ==
  IF segs = << >> THEN done
  ELSE LET g == Head(segs) IN
       IF g = << >> \/ g = <<".">> THEN Normalize(done, Tail(segs))
       ELSE IF g = <<".", ".">>
            THEN Normalize(IF done = << >> THEN done
                           ELSE SubSeq(done, 1, Len(done) - 1), Tail(segs))
       ELSE Normalize(Append(done, g), Tail(segs))

PathJoin(dir, name) == Normalize(dir, SplitPath(name))

\* path.basename
Basename(p) == p[Len(p)]

\* path.dirname
Dirname(p) == SubSeq(p, 1, Len(p) - 1)

\* this.rootDbPath, this.collectionName, this.collectionPath (constructor)
rootDbPath == << <<"d", "b">> >>
collectionName == <<"c">>
collectionPath == PathJoin(rootDbPath, collectionName)
\* path.join(rootDbPath, '.backup', collectionName)
backupDirPath == PathJoin(PathJoin(rootDbPath, <<".", "b", "a", "c", "k", "u", "p">>), collectionName)

\* _getDocPath without the check for '..'.
_getDocPathNoTraversalCheck(docId) ==
  IF TrimIsEmpty(docId)
  THEN [ok |-> FALSE, why |-> "empty", path |-> << >>]
  ELSE LET sanitized == sanitizedDocId(docId) IN
    IF Len(sanitized) > MaxIdLength
    THEN [ok |-> FALSE, why |-> "too long", path |-> << >>]
    ELSE [ok |-> TRUE, why |-> "",
          path |-> PathJoin(collectionPath, sanitized \o JsonSuffix)]

\* _getDocPath with the length compared one off.
_getDocPathOffByOne(docId) ==
  IF TrimIsEmpty(docId)
  THEN [ok |-> FALSE, why |-> "empty", path |-> << >>]
  ELSE LET sanitized == sanitizedDocId(docId) IN
    IF Includes(sanitized, <<".", ".">>)
    THEN [ok |-> FALSE, why |-> "dotdot", path |-> << >>]
    ELSE IF Len(sanitized) > MaxIdLength + 1
    THEN [ok |-> FALSE, why |-> "too long", path |-> << >>]
    ELSE [ok |-> TRUE, why |-> "",
          path |-> PathJoin(collectionPath, sanitized \o JsonSuffix)]

\* Collection._getDocPath: the document path, or the error thrown.
_getDocPath(docId) ==
  IF TrimIsEmpty(docId)
  THEN [ok |-> FALSE, why |-> "empty", path |-> << >>]
  ELSE LET sanitized == sanitizedDocId(docId) IN
    IF Includes(sanitized, <<".", ".">>)
    THEN [ok |-> FALSE, why |-> "dotdot", path |-> << >>]
    ELSE IF Len(sanitized) > MaxIdLength
    THEN [ok |-> FALSE, why |-> "too long", path |-> << >>]
    ELSE [ok |-> TRUE, why |-> "",
          path |-> PathJoin(collectionPath, sanitized \o JsonSuffix)]

(***************************************************************************)
(* JSON values and their text.  A value is a record tagged by t; a string  *)
(* is a sequence of characters, an array a sequence of values, an object a *)
(* sequence of <<key, value>> pairs in insertion order.                    *)
(***************************************************************************)
Undefined == [t |-> "undefined"]
Null == [t |-> "null"]
Bool(b) == [t |-> "bool", b |-> b]
Num(n) == [t |-> "num", n |-> n]
Str(s) == [t |-> "str", s |-> s]
Arr(items) == [t |-> "arr", items |-> items]
Obj(fields) == [t |-> "obj", fields |-> fields]

Quote == "\""
Backslash == "\\"

\* The characters of a string between its quotes, '"' and '\' escaped.
RECURSIVE EscapeChars(_)
EscapeChars(s) ==
  IF s = << >> THEN << >>
  ELSE (IF Head(s) \in {Quote, Backslash} THEN <<Backslash, Head(s)>>
        ELSE <<Head(s)>>) \o EscapeChars(Tail(s))

QuoteString(s) == <<Quote>> \o EscapeChars(s) \o <<Quote>>

\* JSON.stringify(data, null, 2) at the given indentation.
RECURSIVE Stringify(_, _)
RECURSIVE StringifyItems(_, _, _)
RECURSIVE StringifyFields(_, _, _)
StringifyItems(items, i, indent) ==
  IF i > Len(items) THEN << >>
  ELSE (IF i > 1 THEN <<",">> ELSE << >>)
       \o <<"\n">> \o Repeat(" ", indent) \o Stringify(items[i], indent)
       \o StringifyItems(items, i + 1, indent)

StringifyFields(fields, i, indent) ==
  IF i > Len(fields) THEN << >>
  ELSE (IF i > 1 THEN <<",">> ELSE << >>)
       \o <<"\n">> \o Repeat(" ", indent) \o QuoteString(fields[i][1])
       \o <<":", " ">> \o Stringify(fields[i][2], indent)
       \o StringifyFields(fields, i + 1, indent)

Stringify(v, indent) ==
  CASE v.t = "null" -> <<"n", "u", "l", "l">>
    [] v.t = "bool" -> IF v.b THEN <<"t", "r", "u", "e">>
                       ELSE <<"f", "a", "l", "s", "e">>
    [] v.t = "num" -> NumToChars(v.n)
    [] v.t = "str" -> QuoteString(v.s)
    [] v.t = "arr" ->
         IF v.items = << >> THEN <<"[", "]">>
         ELSE <<"[">> \o StringifyItems(v.items, 1, indent + 2)
              \o <<"\n">> \o Repeat(" ", indent) \o <<"]">>
    [] v.t = "obj" ->
         IF v.fields = << >> THEN <<"{", "}">>
         ELSE <<"{">> \o StringifyFields(v.fields, 1, indent + 2)
              \o <<"\n">> \o Repeat(" ", indent) \o <<"}">>

(***************************************************************************)
(* JSON.parse: a recursive-descent parser of the text.  Each parser        *)
(* returns [ok, val, next]: whether it parsed, the value, and the position *)
(* after it.                                                               *)
(***************************************************************************)
ParseFail == [ok |-> FALSE, val |-> Null, next |-> 0]
Parsed(v, n) == [ok |-> TRUE, val |-> v, next |-> n]

RECURSIVE SkipWs(_, _)
SkipWs(text, i) ==
  IF i <= Len(text) /\ text[i] \in Whitespace THEN SkipWs(text, i + 1) ELSE i

ParseWord(text, i, word, v) ==
  IF i + Len(word) - 1 <= Len(text) /\ SubSeq(text, i, i + Len(word) - 1) = word
  THEN Parsed(v, i + Len(word))
  ELSE ParseFail

RECURSIVE ParseDigits(_, _, _)
ParseDigits(text, i, acc) ==
  IF i <= Len(text) /\ text[i] \in Digits
  THEN ParseDigits(text, i + 1, 10 * acc + DigitValue(text[i]))
  ELSE Parsed(Num(acc), i)

\* A number: 0, or a non-zero digit followed by digits.
ParseNumber(text, i) ==
  IF text[i] = "0" THEN Parsed(Num(0), i + 1) ELSE ParseDigits(text, i, 0)

\* A string, from the character after its opening quote.
RECURSIVE ParseChars(_, _, _)
ParseChars(text, i, acc) ==
  IF i > Len(text) \/ text[i] = "\n" THEN ParseFail
  ELSE IF text[i] = Quote THEN Parsed(Str(acc), i + 1)
  ELSE IF text[i] = Backslash
       THEN IF i + 1 <= Len(text) /\ text[i + 1] \in {Quote, Backslash}
            THEN ParseChars(text, i + 2, Append(acc, text[i + 1]))
            ELSE ParseFail
  ELSE ParseChars(text, i + 1, Append(acc, text[i]))

RECURSIVE ParseValue(_, _)
RECURSIVE ParseItems(_, _, _)
RECURSIVE ParseFields(_, _, _)
\* The items of an array after '[' or ',': a value, then ',' or ']'.
ParseItems(text, i, acc) ==
  LET r == ParseValue(text, i) IN
  IF ~r.ok THEN ParseFail
  ELSE LET j == SkipWs(text, r.next) IN
       IF j > Len(text) THEN ParseFail
       ELSE IF text[j] = "," THEN ParseItems(text, j + 1, Append(acc, r.val))
       ELSE IF text[j] = "]" THEN Parsed(Arr(Append(acc, r.val)), j + 1)
       ELSE ParseFail

\* The fields of an object after '{' or ',': "key" : value, then ',' or '}'.
ParseFields(text, i, acc) ==
  LET k == SkipWs(text, i) IN
  IF k > Len(text) \/ text[k] # Quote THEN ParseFail
  ELSE LET key == ParseChars(text, k + 1, << >>) IN
       IF ~key.ok THEN ParseFail
       ELSE LET c == SkipWs(text, key.next) IN
            IF c > Len(text) \/ text[c] # ":" THEN ParseFail
            ELSE LET r == ParseValue(text, c + 1) IN
                 IF ~r.ok THEN ParseFail
                 ELSE LET j == SkipWs(text, r.next)
                          fields == Append(acc, <<key.val.s, r.val>>) IN
                      IF j > Len(text) THEN ParseFail
                      ELSE IF text[j] = "," THEN ParseFields(text, j + 1, fields)
                      ELSE IF text[j] = "}" THEN Parsed(Obj(fields), j + 1)
                      ELSE ParseFail

ParseValue(text, i) ==
  LET j == SkipWs(text, i) IN
  IF j > Len(text) THEN ParseFail
  ELSE CASE text[j] = "n" -> ParseWord(text, j, <<"n", "u", "l", "l">>, Null)
         [] text[j] = "t" -> ParseWord(text, j, <<"t", "r", "u", "e">>, Bool(TRUE))
         [] text[j] = "f" -> ParseWord(text, j, <<"f", "a", "l", "s", "e">>, Bool(FALSE))
         [] text[j] \in Digits -> ParseNumber(text, j)
         [] text[j] = Quote -> ParseChars(text, j + 1, << >>)
         [] text[j] = "[" ->
              LET k == SkipWs(text, j + 1) IN
              IF k <= Len(text) /\ text[k] = "]" THEN Parsed(Arr(<< >>), k + 1)
              ELSE ParseItems(text, j + 1, << >>)
         [] text[j] = "{" ->
              LET k == SkipWs(text, j + 1) IN
              IF k <= Len(text) /\ text[k] = "}" THEN Parsed(Obj(<< >>), k + 1)
              ELSE ParseFields(text, j + 1, << >>)
         [] OTHER -> ParseFail

\* JSON.parse(text): the value, or a SyntaxError (ok = FALSE).  Text after
\* the value other than whitespace is a syntax error.
JsonParse(text) ==
  LET r == ParseValue(text, 1) IN
  IF r.ok /\ SkipWs(text, r.next) > Len(text) THEN r ELSE ParseFail

(***************************************************************************)
(* The state: the file system under the database root, the clock, and the  *)
(* last call with what it returned or threw.                               *)
(***************************************************************************)
VARIABLES
  files,   \* path -> text, the regular files
  dirs,    \* the directories that exist
  now,     \* the last reading of the clock, Date.now()
  faults,  \* primary writes that failed so far
  last,    \* the last call: op, docId, data, environment and outcome
  pending, \* the set calls in flight: where each is in its file write
  _collectionsCache,  \* the names LocalDB holds a Collection instance for
  scanning \* the getAllDocs call in flight: its reads and its promise

vars == <<files, dirs, now, faults, last, pending, _collectionsCache, scanning>>

\* The prefixes of a path: the directories mkdir(recursive) makes.
Ancestors(p) == {SubSeq(p, 1, n) : n \in 1..Len(p)}

\* writeFile with the text appended to the file's content (flag 'a').
writeFileAppends(fs, ds, path, text, env) ==
  IF Dirname(path) \notin ds \/ path \in ds \/ env = "fail"
  THEN [ok |-> FALSE, files |-> fs]
  ELSE LET old == IF path \in DOMAIN fs THEN fs[path] ELSE << >>
           written == IF env = "ok" THEN text
                      ELSE SubSeq(text, 1, Len(text) \div 2) IN
       [ok |-> env = "ok",
        files |-> [p \in DOMAIN fs \cup {path} |->
                     IF p = path THEN old \o written ELSE fs[p]]]

\* fsp.writeFile(path, text, 'utf8').  env is what the environment does to
\* the write: "ok"; "fail" (nothing written: EACCES, EROFS); "half" (the
\* file was opened and partly written before the error: ENOSPC, EIO).  A
\* missing parent directory or a directory at the path always fails.
writeFile(fs, ds, path, text, env) ==
  IF Dirname(path) \notin ds \/ path \in ds \/ env = "fail"
  THEN [ok |-> FALSE, files |-> fs]
  ELSE LET written == IF env = "ok" THEN text
                      ELSE SubSeq(text, 1, Len(text) \div 2) IN
       [ok |-> env = "ok",
        files |-> [p \in DOMAIN fs \cup {path} |->
                     IF p = path THEN written ELSE fs[p]]]

\* utils.ensureDirExists: mkdir(recursive); when mkdir fails the error is
\* swallowed if the path is a directory all the same.
ensureDirExists(ds, dirPath, mkdirOk) ==
  IF mkdirOk THEN [ok |-> TRUE, dirs |-> ds \cup Ancestors(dirPath)]
  ELSE [ok |-> dirPath \in ds, dirs |-> ds]

\* backupDocument naming the backup by the raw identifier.
backupDocumentRawName(fs, ds, docId, jsonDataString, env, timestamp) ==
  LET made == ensureDirExists(ds, backupDirPath, env # "mkdir") IN
  IF ~made.ok THEN [ok |-> FALSE, path |-> << >>, files |-> fs, dirs |-> made.dirs]
  ELSE LET backupFilePath ==
             PathJoin(backupDirPath,
                      docId \o <<"_">> \o NumToChars(timestamp) \o BakSuffix)
           w == writeFile(fs, made.dirs, backupFilePath, jsonDataString,
                          IF env = "mkdir" THEN "ok" ELSE env) IN
       [ok |-> w.ok, path |-> IF w.ok THEN backupFilePath ELSE << >>,
        files |-> w.files, dirs |-> made.dirs]

\* backupDocument with a catch block that logs and does not rethrow.
backupDocumentSwallows(fs, ds, docId, jsonDataString, env, timestamp) ==
  LET made == ensureDirExists(ds, backupDirPath, env # "mkdir") IN
  IF ~made.ok THEN [ok |-> TRUE, path |-> << >>, files |-> fs, dirs |-> made.dirs]
  ELSE LET backupFilePath ==
             PathJoin(backupDirPath,
                      sanitizedDocId(docId) \o <<"_">> \o NumToChars(timestamp)
                        \o BakSuffix)
           w == writeFile(fs, made.dirs, backupFilePath, jsonDataString,
                          IF env = "mkdir" THEN "ok" ELSE env) IN
       [ok |-> TRUE, path |-> IF w.ok THEN backupFilePath ELSE << >>,
        files |-> w.files, dirs |-> made.dirs]

\* utils.backupDocument.  env: "ok"; "mkdir" (mkdir fails); "fail" (the
\* backup write fails).  timestamp is what Date.now() returns.
backupDocument(fs, ds, docId, jsonDataString, env, timestamp) ==
  LET made == ensureDirExists(ds, backupDirPath, env # "mkdir") IN
  IF ~made.ok THEN [ok |-> FALSE, path |-> << >>, files |-> fs, dirs |-> made.dirs]
  ELSE LET backupFilePath ==
             PathJoin(backupDirPath,
                      sanitizedDocId(docId) \o <<"_">> \o NumToChars(timestamp)
                        \o BakSuffix)
           w == writeFile(fs, made.dirs, backupFilePath, jsonDataString,
                          IF env = "mkdir" THEN "ok" ELSE env) IN
       [ok |-> w.ok, path |-> IF w.ok THEN backupFilePath ELSE << >>,
        files |-> w.files, dirs |-> made.dirs]

\* What jsonrepair followed by JSON.parse may give for a text JSON.parse
\* rejected.  jsonrepair is an external library: the model leaves open
\* whether it repairs a text and to which value, except that it rejects the
\* empty text.
RepairFails == [t |-> "repair failed"]
RepairedValues == {Obj(<< >>)}
RepairOutcomes(text) ==
  IF text = << >> THEN {RepairFails} ELSE {RepairFails} \cup RepairedValues

\* A variant that throws the error of the repair attempt.
tryRepairAndParseJsonThrowsRepairError(jsonString, repair) ==
  LET parsed == JsonParse(jsonString) IN
  IF parsed.ok
  THEN [ok |-> TRUE, val |-> parsed.val, repaired |-> FALSE, err |-> "none"]
  ELSE IF repair = RepairFails
  THEN [ok |-> FALSE, val |-> Null, repaired |-> FALSE, err |-> "repair"]
  ELSE [ok |-> TRUE, val |-> repair, repaired |-> TRUE, err |-> "none"]

\* utils.tryRepairAndParseJson: the value, or the original parse error (err
\* names the error thrown: that of the first JSON.parse, "parse", never that
\* of jsonrepair or of the second JSON.parse, "repair").
tryRepairAndParseJson(jsonString, repair) ==
  LET parsed == JsonParse(jsonString) IN
  IF parsed.ok
  THEN [ok |-> TRUE, val |-> parsed.val, repaired |-> FALSE, err |-> "none"]
  ELSE IF repair = RepairFails
  THEN [ok |-> FALSE, val |-> Null, repaired |-> FALSE, err |-> "parse"]
  ELSE [ok |-> TRUE, val |-> repair, repaired |-> TRUE, err |-> "none"]

\* A call's outcome: what it returned (kind "ok", "not found") or the error
\* it threw, with the value or path returned and the errors whose messages
\* the thrown error carries.
Outcome(kind, value, path, carries) ==
  [kind |-> kind, value |-> value, path |-> path, carries |-> carries]

\* The state a call leaves and its outcome.
Result(out, fs, ds, clock, failed) ==
  [out |-> out, files |-> fs, dirs |-> ds, now |-> clock, faults |-> failed]

\* set with the identifier checked before the data.
setOutcomeIdFirst(docId, data, wr, bk, t) ==
  LET doc == _getDocPath(docId) IN
  IF ~doc.ok
  THEN Result(Outcome("InvalidIdentifier", Undefined, << >>, {doc.why}),
              files, dirs, now, faults)
  ELSE IF data = Undefined
  THEN Result(Outcome("InvalidInput", Undefined, << >>, {}),
              files, dirs, now, faults)
  ELSE
    LET jsonDataString == Stringify(data, 0)
        w == writeFile(files, dirs, doc.path, jsonDataString, wr) IN
    IF w.ok
    THEN Result(Outcome("ok", Undefined, <<Basename(doc.path)>>, {}),
                w.files, dirs, now, faults)
    ELSE
      LET b == backupDocument(w.files, dirs, docId, jsonDataString, bk, t) IN
      Result(IF b.ok THEN Outcome("backed up", Undefined, b.path, {"write"})
             ELSE Outcome("backup failed", Undefined, << >>, {"write", "backup"}),
             b.files, b.dirs, IF bk = "mkdir" /\ ~b.ok THEN now ELSE t,
             faults + 1)

\* Collection.set.  wr and bk: what the environment does to the primary
\* write and to the backup; t: the clock when the backup reads it.
setOutcome(docId, data, wr, bk, t) ==
  IF data = Undefined
  THEN Result(Outcome("InvalidInput", Undefined, << >>, {}),
              files, dirs, now, faults)
  ELSE
    LET jsonDataString == Stringify(data, 0)
        doc == _getDocPath(docId) IN
    IF ~doc.ok
    THEN Result(Outcome("InvalidIdentifier", Undefined, << >>, {doc.why}),
                files, dirs, now, faults)
    ELSE
      LET w == writeFile(files, dirs, doc.path, jsonDataString, wr) IN
      IF w.ok
      THEN Result(Outcome("ok", Undefined, <<Basename(doc.path)>>, {}),
                  w.files, dirs, now, faults)
      ELSE
        LET b == backupDocument(w.files, dirs, docId, jsonDataString, bk, t) IN
        Result(IF b.ok THEN Outcome("backed up", Undefined, b.path, {"write"})
               ELSE Outcome("backup failed", Undefined, << >>,
                            {"write", "backup"}),
               b.files, b.dirs, IF bk = "mkdir" /\ ~b.ok THEN now ELSE t,
               faults + 1)

\* get with ENOENT treated like every other read error.
getOutcomeThrowsOnAbsent(docId, rd, repair) ==
  LET doc == _getDocPath(docId) IN
  IF ~doc.ok
  THEN Outcome("InvalidIdentifier", Undefined, << >>, {doc.why})
  ELSE IF doc.path \notin DOMAIN files \/ ~rd
  THEN Outcome("get failed", Undefined, << >>, {"read"})
  ELSE LET r == tryRepairAndParseJson(files[doc.path], repair) IN
       IF r.ok THEN Outcome("ok", r.val, << >>, {})
       ELSE Outcome("get failed", Undefined, << >>, {r.err})

\* get that treats a stored null as an unreadable document.
getOutcomeRejectsNull(docId, rd, repair) ==
  LET doc == _getDocPath(docId) IN
  IF ~doc.ok
  THEN Outcome("InvalidIdentifier", Undefined, << >>, {doc.why})
  ELSE IF doc.path \notin DOMAIN files /\ doc.path \notin dirs
  THEN Outcome("ok", Null, << >>, {})
  ELSE IF doc.path \in dirs \/ ~rd
  THEN Outcome("get failed", Undefined, << >>, {"read"})
  ELSE LET r == tryRepairAndParseJson(files[doc.path], repair) IN
       IF r.ok /\ r.val # Null THEN Outcome("ok", r.val, << >>, {})
       ELSE Outcome("get failed", Undefined, << >>, {r.err})

\* Collection.get.  rd: whether the environment lets the file be read;
\* repair: what the repair gives if it is consulted.
getOutcome(docId, rd, repair) ==
  LET doc == _getDocPath(docId) IN
  IF ~doc.ok
  THEN Outcome("InvalidIdentifier", Undefined, << >>, {doc.why})
  ELSE IF doc.path \notin DOMAIN files /\ doc.path \notin dirs
  THEN Outcome("ok", Null, << >>, {})
  ELSE IF doc.path \in dirs \/ ~rd
  THEN Outcome("get failed", Undefined, << >>, {"read"})
  ELSE LET r == tryRepairAndParseJson(files[doc.path], repair) IN
       IF r.ok THEN Outcome("ok", r.val, << >>, {})
       ELSE Outcome("get failed", Undefined, << >>, {r.err})

\* del that removes every document file of the collection directory.
delOutcomeRemovesAll(docId, ul) ==
  LET doc == _getDocPath(docId)
      same(out) == Result(out, files, dirs, now, faults) IN
  IF ~doc.ok
  THEN same(Outcome("InvalidIdentifier", Undefined, << >>, {doc.why}))
  ELSE IF doc.path \notin DOMAIN files /\ doc.path \notin dirs
  THEN same(Outcome("not found", Undefined, << >>, {}))
  ELSE IF doc.path \in dirs \/ ~ul
  THEN same(Outcome("del failed", Undefined, << >>, {"unlink"}))
  ELSE Result(Outcome("ok", Undefined, << >>, {}),
              [p \in {q \in DOMAIN files : Dirname(q) # collectionPath} |-> files[p]],
              dirs, now, faults)

\* Collection.del.  ul: whether the environment lets the file be unlinked.
delOutcome(docId, ul) ==
  LET doc == _getDocPath(docId)
      same(out) == Result(out, files, dirs, now, faults) IN
  IF ~doc.ok
  THEN same(Outcome("InvalidIdentifier", Undefined, << >>, {doc.why}))
  ELSE IF doc.path \notin DOMAIN files /\ doc.path \notin dirs
  THEN same(Outcome("not found", Undefined, << >>, {}))
  ELSE IF doc.path \in dirs \/ ~ul
  THEN same(Outcome("del failed", Undefined, << >>, {"unlink"}))
  ELSE Result(Outcome("ok", Undefined, << >>, {}),
              [p \in DOMAIN files \ {doc.path} |-> files[p]], dirs, now, faults)

\* JavaScript's falsy values among the JSON values: !docContent
Falsy(v) ==
  \/ v.t = "null"
  \/ v.t = "bool" /\ ~v.b
  \/ v.t = "num" /\ v.n = 0
  \/ v.t = "str" /\ v.s = << >>

(***************************************************************************)
(* The query matchers (Collection._checkMatch, Collection._checkLike).     *)
(* A matcher gives "true", "false", or "TypeError" when it throws.         *)
(***************************************************************************)
UpperCase == <<"A", "B", "C", "D", "E", "F", "G", "H", "I", "J", "K", "L", "M",
               "N", "O", "P", "Q", "R", "S", "T", "U", "V", "W", "X", "Y", "Z">>
LowerCase == <<"a", "b", "c", "d", "e", "f", "g", "h", "i", "j", "k", "l", "m",
               "n", "o", "p", "q", "r", "s", "t", "u", "v", "w", "x", "y", "z">>

\* String.prototype.toLowerCase
toLowerCase(s) ==
  [i \in 1..Len(s) |->
     IF \E k \in DOMAIN UpperCase : UpperCase[k] = s[i]
     THEN LowerCase[CHOOSE k \in DOMAIN UpperCase : UpperCase[k] = s[i]]
     ELSE s[i]]

HasOwnPropertyName ==
  <<"h", "a", "s", "O", "w", "n", "P", "r", "o", "p", "e", "r", "t", "y">>
LengthName == <<"l", "e", "n", "g", "t", "h">>

FieldNames(v) == {v.fields[i][1] : i \in DOMAIN v.fields}

RECURSIVE KeyNumber(_)
KeyNumber(key) ==
  IF key = << >> THEN 0
  ELSE KeyNumber(SubSeq(key, 1, Len(key) - 1)) * 10 + DigitValue(key[Len(key)])

\* The array index a property key names, or -1.
ArrayIndex(key) ==
  IF key = << >> \/ \E i \in DOMAIN key : key[i] \notin Digits THEN -1
  ELSE IF Len(key) > 1 /\ key[1] = "0" THEN -1
  ELSE KeyNumber(key)

\* value.hasOwnProperty is not the method of Object.prototype: a decoded
\* object with an own field 'hasOwnProperty' shadows it with a JSON value,
\* and calling that throws a TypeError.
Shadowed(v) == v.t = "obj" /\ HasOwnPropertyName \in FieldNames(v)

\* Object.prototype.hasOwnProperty.call(v, key)
hasOwnProperty(v, key) ==
  CASE v.t = "obj" -> key \in FieldNames(v)
    [] v.t = "arr" ->
         key = LengthName \/ (ArrayIndex(key) >= 0 /\ ArrayIndex(key) < Len(v.items))
    [] v.t = "str" ->
         key = LengthName \/ (ArrayIndex(key) >= 0 /\ ArrayIndex(key) < Len(v.s))
    [] OTHER -> FALSE

\* v[key] for an own property.
GetProp(v, key) ==
  CASE v.t = "obj" ->
         v.fields[CHOOSE i \in DOMAIN v.fields :
                    /\ v.fields[i][1] = key
                    /\ \A j \in DOMAIN v.fields : j > i => v.fields[j][1] # key][2]
    [] v.t = "arr" ->
         IF key = LengthName THEN Num(Len(v.items)) ELSE v.items[ArrayIndex(key) + 1]
    [] v.t = "str" ->
         IF key = LengthName THEN Num(Len(v.s)) ELSE Str(<<v.s[ArrayIndex(key) + 1]>>)

\* for(const key in v): the enumerable keys with their values, in order.
ForIn(v) ==
  CASE v.t = "obj" -> v.fields
    [] v.t = "arr" -> [i \in DOMAIN v.items |-> <<NumToChars(i - 1), v.items[i]>>]
    [] v.t = "str" -> [i \in DOMAIN v.s |-> <<NumToChars(i - 1), Str(<<v.s[i]>>)>>]
    [] OTHER -> << >>

Tri(b) == IF b THEN "true" ELSE "false"

\* queryValue === null || typeof queryValue !== 'object'
IsPrimitive(v) == v.t \notin {"arr", "obj"}

\* includes looking at the first element only.
ArrayIncludesFirst(items, v) == items # << >> /\ items[1] = v

\* Array.prototype.includes
ArrayIncludes(items, v) == \E i \in DOMAIN items : items[i] = v

RECURSIVE _checkMatch(_, _)
RECURSIVE checkMatchItems(_, _, _)
RECURSIVE checkMatchKeys(_, _, _)

\* The array branch asking only that the document's array contains every
\* queried element, in any order.
checkMatchItemsUnordered(docItems, queryItems, i) ==
  Tri(\A j \in DOMAIN queryItems : ArrayIncludes(docItems, queryItems[j]))

\* _checkMatch, lines 106-109: the elements pairwise from index i.
checkMatchItems(docItems, queryItems, i) ==
  IF i > Len(queryItems) THEN "true"
  ELSE LET r == _checkMatch(docItems[i], queryItems[i]) IN
       IF r = "true" THEN checkMatchItems(docItems, queryItems, i + 1) ELSE r

\* _checkMatch, lines 113-118: the keys of the query object from the i-th.
checkMatchKeys(docValue, fields, i) ==
  IF i > Len(fields) THEN "true"
  ELSE IF Shadowed(docValue) THEN "TypeError"
  ELSE IF ~hasOwnProperty(docValue, fields[i][1]) THEN "false"
  ELSE LET r == _checkMatch(GetProp(docValue, fields[i][1]), fields[i][2]) IN
       IF r = "true" THEN checkMatchKeys(docValue, fields, i + 1) ELSE r

\* Collection._checkMatch
_checkMatch(docValue, queryValue) ==
  IF IsPrimitive(queryValue)
  THEN IF docValue.t = "arr" THEN Tri(ArrayIncludes(docValue.items, queryValue))
       ELSE Tri(docValue = queryValue)
  ELSE IF IsPrimitive(docValue) THEN "false"
  ELSE IF queryValue.t = "arr"
  THEN IF docValue.t # "arr" \/ Len(docValue.items) # Len(queryValue.items)
       THEN "false"
       ELSE checkMatchItems(docValue.items, queryValue.items, 1)
  ELSE IF docValue.t = "arr" THEN "false"
  ELSE checkMatchKeys(docValue, ForIn(queryValue), 1)

\* The element test without the lowercase form of the element.
LikeItemCaseSensitive(item, qvLower) ==
  item.t = "str" /\ Includes(item.s, qvLower)

\* The element test that asks for more text than the query's.
LikeItemLongerOnly(item, qvLower) ==
  /\ item.t = "str" /\ Includes(toLowerCase(item.s), qvLower)
  /\ Len(item.s) > Len(qvLower)

\* item => typeof item === 'string' && item.toLowerCase().includes(qvLower)
LikeItem(item, qvLower) ==
  item.t = "str" /\ Includes(toLowerCase(item.s), qvLower)

RECURSIVE _checkLike(_, _)
RECURSIVE checkLikeKeys(_, _, _)

\* _checkLike, lines 140-145: the keys of the query object from the i-th.
checkLikeKeys(docValue, fields, i) ==
  IF i > Len(fields) THEN "true"
  ELSE IF Shadowed(docValue) THEN "TypeError"
  ELSE IF ~hasOwnProperty(docValue, fields[i][1]) THEN "false"
  ELSE LET r == _checkLike(GetProp(docValue, fields[i][1]), fields[i][2]) IN
       IF r = "true" THEN checkLikeKeys(docValue, fields, i + 1) ELSE r

\* Collection._checkLike
_checkLike(docValue, queryValue) ==
  IF queryValue.t = "str"
  THEN LET qvLower == toLowerCase(queryValue.s) IN
       IF docValue.t = "str" THEN Tri(LikeItem(docValue, qvLower))
       ELSE IF docValue.t = "arr"
       THEN Tri(\E i \in DOMAIN docValue.items : LikeItem(docValue.items[i], qvLower))
       ELSE "false"
  ELSE IF IsPrimitive(queryValue)
  THEN IF docValue.t = "arr" THEN Tri(ArrayIncludes(docValue.items, queryValue))
       ELSE Tri(docValue = queryValue)
  ELSE IF IsPrimitive(docValue) THEN "false"
  ELSE IF queryValue.t = "arr" \/ docValue.t = "arr" THEN "false"
  ELSE checkLikeKeys(docValue, ForIn(queryValue), 1)

SearchName == <<"s", "e", "a", "r", "c", "h">>
MatchName == <<"m", "a", "t", "c", "h">>
LikeName == <<"l", "i", "k", "e">>

\* v[key], undefined when v has no such own property.
Prop(v, key) == IF hasOwnProperty(v, key) THEN GetProp(v, key) ELSE Undefined

\* !value in JavaScript, undefined included.
Not(v) == v = Undefined \/ Falsy(v)

\* Collection.all, lines 176-192 for one block of the query: every key of
\* the block against the document, from the i-th; like tells the matcher.
RECURSIVE checkBlock(_, _, _, _)
checkBlock(docContent, fields, i, like) ==
  IF i > Len(fields) THEN "true"
  ELSE IF Shadowed(docContent) THEN "TypeError"
  ELSE IF ~hasOwnProperty(docContent, fields[i][1]) THEN "false"
  ELSE LET r == IF like THEN _checkLike(GetProp(docContent, fields[i][1]), fields[i][2])
                ELSE _checkMatch(GetProp(docContent, fields[i][1]), fields[i][2]) IN
       IF r = "true" THEN checkBlock(docContent, fields, i + 1, like) ELSE r

\* Collection.all, lines 171-192: whether the document is pushed.
matchesQuery(docContent, query) ==
  IF Not(query) \/ Not(Prop(query, SearchName)) THEN "true"
  ELSE LET search == Prop(query, SearchName)
           match == Prop(search, MatchName)
           like == Prop(search, LikeName)
           m == IF Not(match) THEN "true"
                ELSE checkBlock(docContent, ForIn(match), 1, FALSE) IN
       IF m # "true" \/ Not(like) THEN m
       ELSE checkBlock(docContent, ForIn(like), 1, TRUE)

\* fsp.readdir(dirPath): the names of the entries directly inside it.
readdir(dirPath) ==
  {Basename(p) : p \in {q \in DOMAIN files \cup dirs :
                          Len(q) > 0 /\ Dirname(q) = dirPath}}

\* What the environment does to one entry of a scan: the read fails, or it
\* succeeds and the repair, if consulted, gives this.
Unreadable == [t |-> "unreadable"]

\* The loop with a break where the code continues past a falsy document.
RECURSIVE allLoopBreaks(_, _, _, _, _)
allLoopBreaks(filesInDir, i, env, query, results) ==
  IF i > Len(filesInDir) THEN [ok |-> TRUE, results |-> results]
  ELSE
    LET fileName == filesInDir[i]
        docPath == PathJoin(collectionPath, fileName) IN
    IF ~EndsWith(fileName, JsonSuffix)
    THEN allLoopBreaks(filesInDir, i + 1, env, query, results)
    ELSE IF docPath \notin DOMAIN files \/ env[fileName] = Unreadable
    THEN allLoopBreaks(filesInDir, i + 1, env, query, results)
    ELSE LET r == tryRepairAndParseJson(files[docPath], env[fileName]) IN
         IF ~r.ok THEN allLoopBreaks(filesInDir, i + 1, env, query, results)
         ELSE IF Falsy(r.val) THEN [ok |-> TRUE, results |-> results]
         ELSE LET m == matchesQuery(r.val, query) IN
              IF m = "TypeError" THEN [ok |-> FALSE, results |-> << >>]
              ELSE allLoopBreaks(filesInDir, i + 1, env, query,
                                 IF m = "true" THEN Append(results, r.val)
                                 ELSE results)

\* The loop that stops at the first entry it cannot read or decode.
RECURSIVE allLoopAborts(_, _, _, _, _)
allLoopAborts(filesInDir, i, env, query, results) ==
  IF i > Len(filesInDir) THEN [ok |-> TRUE, results |-> results]
  ELSE
    LET fileName == filesInDir[i]
        docPath == PathJoin(collectionPath, fileName) IN
    IF ~EndsWith(fileName, JsonSuffix)
    THEN allLoopAborts(filesInDir, i + 1, env, query, results)
    ELSE IF docPath \notin DOMAIN files \/ env[fileName] = Unreadable
    THEN [ok |-> TRUE, results |-> results]
    ELSE LET r == tryRepairAndParseJson(files[docPath], env[fileName]) IN
         IF ~r.ok THEN [ok |-> TRUE, results |-> results]
         ELSE IF Falsy(r.val)
         THEN allLoopAborts(filesInDir, i + 1, env, query, results)
         ELSE LET m == matchesQuery(r.val, query) IN
              IF m = "TypeError" THEN [ok |-> FALSE, results |-> << >>]
              ELSE allLoopAborts(filesInDir, i + 1, env, query,
                                 IF m = "true" THEN Append(results, r.val)
                                 ELSE results)

\* The loop of Collection.all over filesInDir from index i.  env: what the
\* environment does to each entry.  ok is FALSE when a matcher threw.
RECURSIVE allLoop(_, _, _, _, _)
allLoop(filesInDir, i, env, query, results) ==
  IF i > Len(filesInDir) THEN [ok |-> TRUE, results |-> results]
  ELSE
    LET fileName == filesInDir[i]
        docPath == PathJoin(collectionPath, fileName) IN
    IF ~EndsWith(fileName, JsonSuffix)
    THEN allLoop(filesInDir, i + 1, env, query, results)
    ELSE IF docPath \notin DOMAIN files \/ env[fileName] = Unreadable
    THEN allLoop(filesInDir, i + 1, env, query, results)
    ELSE LET r == tryRepairAndParseJson(files[docPath], env[fileName]) IN
         IF ~r.ok THEN allLoop(filesInDir, i + 1, env, query, results)
         ELSE IF Falsy(r.val) THEN allLoop(filesInDir, i + 1, env, query, results)
         ELSE LET m == matchesQuery(r.val, query) IN
              IF m = "TypeError" THEN [ok |-> FALSE, results |-> << >>]
              ELSE allLoop(filesInDir, i + 1, env, query,
                           IF m = "true" THEN Append(results, r.val)
                           ELSE results)

\* Collection.all(query).  filesInDir is readdir's result in the order the
\* file system enumerates it; query is undefined when none is given.
allOutcome(filesInDir, env, query) ==
  LET made == ensureDirExists(dirs, collectionPath, TRUE)
      scanned == allLoop(filesInDir, 1, env, query, << >>) IN
  Result(IF scanned.ok THEN Outcome("ok", Arr(scanned.results), << >>, {})
         ELSE Outcome("TypeError", Undefined, << >>, {}),
         files, made.dirs, now, faults)

(***************************************************************************)
(* The actions: one per call, with what the environment does during it.    *)
(***************************************************************************)
Call(op, docId, data, env, r) ==
  /\ files' = r.files
  /\ dirs' = r.dirs
  /\ now' = r.now
  /\ faults' = r.faults
  /\ last' = [op |-> op, docId |-> docId, data |-> data, env |-> env,
              out |-> r.out]
  /\ pending' = pending
  /\ _collectionsCache' = _collectionsCache
  /\ scanning' = scanning

\* No getAllDocs call was made: rdr is the listing, done and failed the
\* indices whose callback ran to its end or threw, data the list the
\* callbacks push to, settled the promise's state and result the list as it
\* was when the promise resolved.
NoScan == [pc |-> "idle", rdr |-> << >>, done |-> {}, failed |-> {},
           data |-> << >>, settled |-> "no", result |-> << >>]

\* The callers that may have a set in flight, and a caller without one.
Callers == {1, 2}
Idle == [pc |-> "idle", docId |-> << >>, data |-> Undefined, text |-> << >>,
         path |-> << >>, seq |-> 0]
NoPending == [c \in Callers |-> Idle]

\* What the environment did during a call; the parts the call's operation
\* never consults keep these values.
NoEnv ==
  [wr |-> "ok", bk |-> "ok", rd |-> TRUE, repair |-> RepairFails, ul |-> TRUE,
   order |-> << >>, scan |-> << >>, access |-> TRUE, rm |-> TRUE,
   rmBackup |-> TRUE, mkdir |-> TRUE]

set(docId, data, wr, bk, t) ==
  Call("set", docId, data, [NoEnv EXCEPT !.wr = wr, !.bk = bk],
       setOutcome(docId, data, wr, bk, t))

get(docId, rd, repair) ==
  Call("get", docId, Undefined, [NoEnv EXCEPT !.rd = rd, !.repair = repair],
       Result(getOutcome(docId, rd, repair), files, dirs, now, faults))

del(docId, ul) ==
  Call("del", docId, Undefined, [NoEnv EXCEPT !.ul = ul], delOutcome(docId, ul))

all(filesInDir, env, query) ==
  Call("all", << >>, query, [NoEnv EXCEPT !.order = filesInDir, !.scan = env],
       allOutcome(filesInDir, env, query))

Init ==
  /\ files = << >>
  /\ dirs = Ancestors(collectionPath)
  /\ now = 0
  /\ faults = 0
  /\ last = [op |-> "none", docId |-> << >>, data |-> Undefined, env |-> NoEnv,
             out |-> Outcome("ok", Undefined, << >>, {})]
  /\ pending = NoPending
  /\ _collectionsCache = {}
  /\ scanning = NoScan

(***************************************************************************)
(* The calls of the specifications and what the environment may do.  A     *)
(* choice that a call never consults is not varied.                        *)
(***************************************************************************)
\* The identifiers and values of Spec: identifiers that share a file
\* ('a' and 'a<'), one of a file of its own whose name the sanitiser
\* changes ('b/.'), one that is rejected.
K == <<"k">>
CoreIds ==
  { <<"a">>, <<"a", "<">>, <<"b", "/", ".">>, <<".", ".", "/", "a">> }
CoreData ==
  { Undefined, Null, Obj(<< <<K, Num(1)>> >>) }

\* The identifiers and values of SpecIds: every string over IdChars of
\* MaxShortLen characters at most, some listed ones, and long ones.
IdChars == {"a", ".", "/", "<"}
ShortIds == UNION {[1..n -> IdChars] : n \in 0..MaxShortLen}
ListedIds ==
  { <<" ">>, <<" ", "\t">>, <<"a", "\\", "a">>,
    <<".", ".", "/">>, <<".", ".", "/", "a">>,
    <<"a", "/", ".", ".", "/", "a">>, <<".", "<", ".">>,
    <<"<", ".", ".", "/", "<">> }
LongIds ==
  { Repeat("a", MaxIdLength), Repeat("a", MaxIdLength + 1),
    Repeat("a", MaxIdLength) \o <<"<">>, Repeat("a", MaxIdLength) \o <<"/">> }
WideIds == ShortIds \cup ListedIds \cup LongIds
WideData == { Undefined, Obj(<< <<K, Num(1)>> >>) }


\* The identifiers of SpecQuery.
QueryIds == { <<"a">>, <<"b">> }

\* _getDocPath of the identifiers of the model, tabulated.
DocPaths ==
  [docId \in CoreIds \cup WideIds \cup QueryIds |-> _getDocPath(docId)]

WriteOutcomes == {"ok", "fail", "half"}
BackupOutcomes == {"ok", "mkdir", "fail"}

WriteChoices(docId, data, maxFaults) ==
  IF data # Undefined /\ DocPaths[docId].ok /\ faults < maxFaults
  THEN WriteOutcomes ELSE {"ok"}

BackupChoices(wr) == IF wr = "ok" THEN {"ok"} ELSE BackupOutcomes

\* The clock does not run backwards: a reading is at least the last one.
ClockChoices(wr) == IF wr = "ok" THEN {now} ELSE now..MaxTime

\* The orders in which a set of names can be enumerated.
Orders(names) ==
  {o \in [1..Cardinality(names) -> names] :
     \A i, j \in 1..Cardinality(names) : i # j => o[i] # o[j]}

\* What the repair may give for the file at a path, if it is consulted.
RepairChoices(path) ==
  IF path \in DOMAIN files /\ ~JsonParse(files[path]).ok
  THEN RepairOutcomes(files[path]) ELSE {RepairFails}

\* Whether the environment may fail to read or unlink the file at a path.
AccessChoices(path) == IF path \in DOMAIN files THEN BOOLEAN ELSE {TRUE}

\* What the environment may do to the entries of a scan.
ScanChoices(names) ==
  LET choices == [n \in names |->
                    IF PathJoin(collectionPath, n) \in DOMAIN files
                    THEN {Unreadable} \cup RepairChoices(PathJoin(collectionPath, n))
                    ELSE {RepairFails}] IN
  {env \in [names -> {Unreadable, RepairFails} \cup RepairedValues] :
     \A n \in names : env[n] \in choices[n]}

SetCall(ids, datas, maxFaults) ==
  \E docId \in ids, data \in datas :
    \E wr \in WriteChoices(docId, data, maxFaults) :
      \E bk \in BackupChoices(wr), t \in ClockChoices(wr) :
        set(docId, data, wr, bk, t)

GetCall(ids) ==
  \E docId \in ids :
    \E rd \in AccessChoices(DocPaths[docId].path),
       repair \in RepairChoices(DocPaths[docId].path) :
      get(docId, rd, repair)

DelCall(ids) ==
  \E docId \in ids :
    \E ul \in AccessChoices(DocPaths[docId].path) : del(docId, ul)

AllCall(queries) ==
  \E filesInDir \in Orders(readdir(collectionPath)),
     env \in ScanChoices(readdir(collectionPath)), query \in queries :
    all(filesInDir, env, query)

(***************************************************************************)
(* Spec: the calls on a few identifiers that share and do not share a      *)
(* file, with one failing write at most.                                   *)
(***************************************************************************)
Next ==
  \/ SetCall(CoreIds, CoreData, MaxFaults)
  \/ GetCall(CoreIds)
  \/ DelCall(CoreIds)
  \/ AllCall({Undefined})

Spec == Init /\ [][Next]_vars

\* The calls of Spec with one more failing write.
NextBackups ==
  \/ SetCall(CoreIds, CoreData, MaxFaults + 1)
  \/ GetCall(CoreIds)
  \/ DelCall(CoreIds)
  \/ AllCall({Undefined})

SpecBackups == Init /\ [][NextBackups]_vars

(***************************************************************************)
(* SpecIds: the calls on a wide domain of identifiers, the collection      *)
(* holding MaxDocsWide documents at most and every write succeeding.       *)
(***************************************************************************)
DocsHeld == Cardinality({p \in DOMAIN files : Dirname(p) = collectionPath})

\* The identifiers a set may name without the collection growing past
\* MaxDocsWide documents.
RoomFor(ids) ==
  {docId \in ids :
     \/ ~DocPaths[docId].ok
     \/ DocPaths[docId].path \in DOMAIN files
     \/ DocsHeld < MaxDocsWide}

NextIds ==
  \/ SetCall(RoomFor(WideIds), WideData, 0)
  \/ GetCall(WideIds)
  \/ DelCall(WideIds)
  \/ AllCall({Undefined})

SpecIds == Init /\ [][NextIds]_vars

(***************************************************************************)
(* SpecQuery: documents with fields are set and the collection is scanned  *)
(* with queries; every write and read succeeds.                            *)
(***************************************************************************)
Electronics == <<"E", "l", "e", "c", "t", "r", "o", "n", "i", "c", "s">>
Books == <<"B", "o", "o", "k", "s">>
LaptopPro == <<"L", "a", "p", "t", "o", "p", " ", "P", "r", "o">>
ProX == <<"P", "r", "o", " ", "X">>
CategoryName == <<"c", "a", "t", "e", "g", "o", "r", "y">>
TagsName == <<"t", "a", "g", "s">>
NameName == <<"n", "a", "m", "e">>
A == Str(<<"a">>)
B == Str(<<"b">>)

\* A document or query object of one field, and of two.
Obj1(k, v) == Obj(<< <<k, v>> >>)
Obj2(k1, v1, k2, v2) == Obj(<< <<k1, v1>>, <<k2, v2>> >>)

QueryDocs ==
  { Obj2(CategoryName, Str(Electronics), TagsName, Arr(<<A, B>>)),
    Obj2(CategoryName, Str(Books), TagsName, Arr(<<B, A>>)),
    Obj1(NameName, Str(LaptopPro)),
    Obj2(NameName, Num(5), CategoryName, Null),
    Obj2(NameName, Arr(<<Num(5), Str(ProX)>>), TagsName, Arr(<<Arr(<<A>>), B>>)),
    Obj2(HasOwnPropertyName, Num(1), CategoryName, Str(Electronics)),
    Arr(<<A>>),
    Null }

\* The documents the second identifier is set to.
OtherDocs == { Obj2(CategoryName, Str(Electronics), TagsName, Arr(<<A, B>>)) }

MatchBlocks ==
  { Undefined, Obj(<< >>),
    Obj1(CategoryName, Str(Electronics)), Obj1(CategoryName, Str(Books)),
    Obj1(TagsName, A), Obj1(TagsName, Arr(<<A, B>>)), Obj1(TagsName, Arr(<<A>>)),
    Obj1(CategoryName, Null), Obj1(NameName, Num(5)),
    Obj2(CategoryName, Str(Electronics), TagsName, B) }

LikeBlocks ==
  { Undefined,
    Obj1(NameName, Str(<<"p", "r", "o">>)),
    Obj1(NameName, Str(<<"p", "h", "o", "n", "e">>)),
    Obj1(TagsName, Str(<<"A">>)), Obj1(NameName, Num(5)),
    Obj2(NameName, Str(<<"P", "R", "O">>), TagsName, Str(<<"B">>)) }

\* {search: {match: M, like: L}}, a block that is undefined left out.
Query(M, L) ==
  Obj1(SearchName,
       Obj(SelectSeq(<< <<MatchName, M>>, <<LikeName, L>> >>,
                     LAMBDA f : f[2] # Undefined)))

Queries == {Undefined} \cup {Query(M, L) : M \in MatchBlocks, L \in LikeBlocks}

\* A scan in which every entry is read.
QueryCall(queries) ==
  \E filesInDir \in Orders(readdir(collectionPath)), query \in queries :
    all(filesInDir, [n \in readdir(collectionPath) |-> RepairFails], query)

NextQuery ==
  \/ SetCall({<<"a">>}, QueryDocs, 0)
  \/ SetCall({<<"b">>}, OtherDocs, 0)
  \/ QueryCall(Queries)

SpecQuery == Init /\ [][NextQuery]_vars

(***************************************************************************)
(* SpecScan: the collection directory holds, from the start, a file whose  *)
(* name does not end in '.json'; documents are set, with one failing write *)
(* at most, and the collection is scanned.                                 *)
(***************************************************************************)
ForeignFile == Append(collectionPath, <<"n", "o", "t", "e", "s">>)

InitScan ==
  /\ files = (ForeignFile :> <<"1">>)
  /\ dirs = Ancestors(collectionPath)
  /\ now = 0
  /\ faults = 0
  /\ last = [op |-> "none", docId |-> << >>, data |-> Undefined, env |-> NoEnv,
             out |-> Outcome("ok", Undefined, << >>, {})]
  /\ pending = NoPending
  /\ _collectionsCache = {}
  /\ scanning = NoScan

ScanIds == { <<"a">>, <<"b", "/", ".">> }
ScanData == { Null, Obj(<< <<K, Num(1)>> >>) }

NextScan ==
  \/ SetCall(ScanIds, ScanData, MaxFaults)
  \/ AllCall({Undefined})

SpecScan == InitScan /\ [][NextScan]_vars

(***************************************************************************)
(* SpecRace: two callers call set on one identifier without awaiting each  *)
(* other.  set runs to its await of fsp.writeFile in one step; the write   *)
(* is what Node makes of it: the file is opened with flag 'w' (created or  *)
(* truncated), the text is written through the caller's own descriptor at  *)
(* its offset 0, and the descriptor is closed, each a step of its own that *)
(* the steps of the other caller may come between.                         *)
(***************************************************************************)
RaceIds == { <<"a">> }
RaceData == { Null, Num(1), Obj(<< <<K, Num(1)>> >>) }

\* write(fd, text): the bytes land at the descriptor's offset, 0, and leave
\* what the file holds beyond them.
writeAtStart(old, text) == text \o SubSeq(old, Len(text) + 1, Len(old))

\* Collection.set up to its await: the value is encoded, the path derived
\* and fsp.writeFile called.
setStart(c, docId, data) ==
  /\ pending[c].pc = "idle"
  /\ data # Undefined
  /\ DocPaths[docId].ok
  /\ pending' = [pending EXCEPT ![c] =
                   [pc |-> "open", docId |-> docId, data |-> data,
                    text |-> Stringify(data, 0), path |-> DocPaths[docId].path,
                    seq |-> 0]]
  /\ UNCHANGED <<files, dirs, now, faults, last, _collectionsCache, scanning>>

\* fsp.writeFile: open(path, 'w') creates the file or truncates it.
writeOpen(c) ==
  /\ pending[c].pc = "open"
  /\ Dirname(pending[c].path) \in dirs
  /\ files' = [p \in DOMAIN files \cup {pending[c].path} |->
                 IF p = pending[c].path THEN << >> ELSE files[p]]
  /\ pending' = [pending EXCEPT ![c].pc = "write"]
  /\ UNCHANGED <<dirs, now, faults, last, _collectionsCache, scanning>>

\* fsp.writeFile: the text is written; seq numbers the writes in the order
\* in which they complete.
writeData(c) ==
  /\ pending[c].pc = "write"
  /\ files' = [files EXCEPT ![pending[c].path] =
                 writeAtStart(files[pending[c].path], pending[c].text)]
  /\ pending' = [pending EXCEPT
                   ![c].pc = "close",
                   ![c].seq = 1 + Cardinality({d \in Callers : pending[d].seq > 0})]
  /\ UNCHANGED <<dirs, now, faults, last, _collectionsCache, scanning>>

\* fsp.writeFile closes the descriptor and resolves; set returns success.
setReturn(c) ==
  /\ pending[c].pc = "close"
  /\ pending' = [pending EXCEPT ![c].pc = "done"]
  /\ last' = [op |-> "set", docId |-> pending[c].docId, data |-> pending[c].data,
              env |-> NoEnv,
              out |-> Outcome("ok", Undefined, <<Basename(pending[c].path)>>, {})]
  /\ UNCHANGED <<files, dirs, now, faults, _collectionsCache, scanning>>

NextRace ==
  \/ \E c \in Callers, docId \in RaceIds, data \in RaceData : setStart(c, docId, data)
  \/ \E c \in Callers : writeOpen(c)
  \/ \E c \in Callers : writeData(c)
  \/ \E c \in Callers : setReturn(c)

SpecRace == Init /\ [][NextRace]_vars

(***************************************************************************)
(* LocalDB: the collection's life cycle.  SpecCol obtains, ensures and     *)
(* deletes the collection while documents are set in it, with one failing  *)
(* write at most (which leaves a backup file).                             *)
(***************************************************************************)
\* Whether the path p is dirPath or is below it.
Under(p, dirPath) ==
  Len(p) >= Len(dirPath) /\ SubSeq(p, 1, Len(dirPath)) = dirPath

\* utils.deleteDirectory: fsp.rm(dirPath, {recursive, force}).  rmOk: whether
\* the environment lets the tree be removed; a failure that is not ENOENT is
\* rethrown.
deleteDirectory(fs, ds, dirPath, rmOk) ==
  IF rmOk
  THEN [ok |-> TRUE,
        files |-> [p \in {q \in DOMAIN fs : ~Under(q, dirPath)} |-> fs[p]],
        dirs |-> {d \in ds : ~Under(d, dirPath)}]
  ELSE [ok |-> FALSE, files |-> fs, dirs |-> ds]

\* The state a call of LocalDB leaves and its outcome.
ColResult(out, fs, ds, cache) ==
  [out |-> out, files |-> fs, dirs |-> ds, cache |-> cache]

\* delCol that leaves the backup directory alone.
delColOutcomeKeepsBackup(access, rm, rmBackup) ==
  IF collectionPath \notin dirs
  THEN ColResult(Outcome("not found", Undefined, << >>, {}),
                 files, dirs, _collectionsCache)
  ELSE IF ~access
  THEN ColResult(Outcome("delCol failed", Undefined, << >>, {"access"}),
                 files, dirs, _collectionsCache)
  ELSE
    LET col == deleteDirectory(files, dirs, collectionPath, rm) IN
    IF ~col.ok
    THEN ColResult(Outcome("delCol failed", Undefined, << >>, {"rm"}),
                   files, dirs, _collectionsCache)
    ELSE ColResult(Outcome("ok", Undefined, << >>, {}), col.files, col.dirs,
                   _collectionsCache \ {collectionName})

\* LocalDB.delCol.  access, rm, rmBackup: whether the environment lets the
\* collection directory be accessed and removed, and the backup directory
\* be removed.
delColOutcome(access, rm, rmBackup) ==
  IF collectionPath \notin dirs
  THEN ColResult(Outcome("not found", Undefined, << >>, {}),
                 files, dirs, _collectionsCache)
  ELSE IF ~access
  THEN ColResult(Outcome("delCol failed", Undefined, << >>, {"access"}),
                 files, dirs, _collectionsCache)
  ELSE
    LET col == deleteDirectory(files, dirs, collectionPath, rm) IN
    IF ~col.ok
    THEN ColResult(Outcome("delCol failed", Undefined, << >>, {"rm"}),
                   files, dirs, _collectionsCache)
    ELSE
      LET bak == IF backupDirPath \in col.dirs
                 THEN deleteDirectory(col.files, col.dirs, backupDirPath, rmBackup)
                 ELSE [ok |-> TRUE, files |-> col.files, dirs |-> col.dirs] IN
      ColResult(Outcome("ok", Undefined, << >>, {}), bak.files, bak.dirs,
                _collectionsCache \ {collectionName})

\* LocalDB.newCol.  mkdirOk: whether the environment lets mkdir succeed.
newColOutcome(mkdirOk) ==
  LET made == ensureDirExists(dirs, collectionPath, mkdirOk) IN
  IF made.ok
  THEN ColResult(Outcome("ok", Undefined, collectionPath, {}), files, made.dirs,
                 _collectionsCache \cup {collectionName})
  ELSE ColResult(Outcome("newCol failed", Undefined, << >>, {"mkdir"}),
                 files, made.dirs, _collectionsCache)

ColCall(op, env, r) ==
  /\ files' = r.files
  /\ dirs' = r.dirs
  /\ _collectionsCache' = r.cache
  /\ last' = [op |-> op, docId |-> << >>, data |-> Undefined, env |-> env,
              out |-> r.out]
  /\ UNCHANGED <<now, faults, pending, scanning>>

\* LocalDB.getCol: the cached instance, or a new one that is cached.
getCol ==
  ColCall("getCol", NoEnv,
          ColResult(Outcome("ok", Undefined, collectionPath, {}), files, dirs,
                    _collectionsCache \cup {collectionName}))

newCol(mkdirOk) ==
  ColCall("newCol", [NoEnv EXCEPT !.mkdir = mkdirOk], newColOutcome(mkdirOk))

delCol(access, rm, rmBackup) ==
  ColCall("delCol",
          [NoEnv EXCEPT !.access = access, !.rm = rm, !.rmBackup = rmBackup],
          delColOutcome(access, rm, rmBackup))

\* What the environment may do during delCol: a choice the call does not
\* consult is not varied.
DelColCall ==
  \E access \in (IF collectionPath \in dirs THEN BOOLEAN ELSE {TRUE}) :
    \E rm \in (IF collectionPath \in dirs /\ access THEN BOOLEAN ELSE {TRUE}) :
      \E rmBackup \in (IF collectionPath \in dirs /\ access /\ rm
                           /\ backupDirPath \in dirs
                        THEN BOOLEAN ELSE {TRUE}) :
        delCol(access, rm, rmBackup)

ColIds == { <<"a">>, <<"b", "/", ".">> }
ColData == { Null, Obj(<< <<K, Num(1)>> >>) }

NextCol ==
  \/ getCol
  \/ \E mkdirOk \in BOOLEAN : newCol(mkdirOk)
  \/ DelColCall
  \/ collectionPath \in dirs /\ SetCall(ColIds, ColData, MaxFaults)

SpecCol == Init /\ [][NextCol]_vars

(***************************************************************************)
(* SpecHeld: the calls of SpecCol, and get, all and allCol made through a  *)
(* Collection instance that the caller keeps across delCol.                *)
(***************************************************************************)
BackupDirName == <<".", "b", "a", "c", "k", "u", "p">>

\* LocalDB._validateCollectionName, on the names of the model's directories.
validCollectionName(name) ==
  /\ ~TrimIsEmpty(name)
  /\ name[1] # "."
  /\ ~Includes(name, <<".", ".">>)
  /\ \A i \in 1..Len(name) :
       name[i] \notin {"/", "\\"} \cup ReservedChars

\* LocalDB.allCol: the directories directly inside the database directory
\* that are not '.backup', do not start with '._' and are valid names.
allColNames ==
  {Basename(d) : d \in {e \in dirs :
     /\ Len(e) > 0 /\ Dirname(e) = rootDbPath
     /\ Basename(e) # BackupDirName
     /\ ~(Len(Basename(e)) >= 2 /\ SubSeq(Basename(e), 1, 2) = <<".", "_">>)
     /\ validCollectionName(Basename(e))}}

allCol(order) ==
  Call("allCol", << >>, Undefined, NoEnv,
       Result(Outcome("ok", Arr([i \in DOMAIN order |-> Str(order[i])]), << >>, {}),
              files, ensureDirExists(dirs, rootDbPath, TRUE).dirs, now, faults))

NextHeld ==
  \/ getCol
  \/ \E mkdirOk \in BOOLEAN : newCol(mkdirOk)
  \/ DelColCall
  \/ collectionPath \in dirs /\ SetCall(ColIds, ColData, MaxFaults)
  \/ GetCall(ColIds)
  \/ AllCall({Undefined})
  \/ \E order \in Orders(allColNames) : allCol(order)

SpecHeld == Init /\ [][NextHeld]_vars

(***************************************************************************)
(* SpecMatchers: _checkMatch and _checkLike applied to the same document   *)
(* value and query value, the query value without arrays.                  *)
(***************************************************************************)
MatcherAtoms ==
  { Null, Num(1), Num(0), Str(<< >>), Str(<<"a">>), Str(<<"A">>),
    Str(<<"a", "b">>) }
MatcherLeaves ==
  MatcherAtoms
    \cup {Arr(<<x>>) : x \in MatcherAtoms}
    \cup {Arr(<<Str(<<"A">>), x>>) : x \in {Null, Num(1), Arr(<<Num(1)>>)}}
MatcherDocs ==
  MatcherLeaves
    \cup {Obj(<< <<K, v>> >>) : v \in MatcherLeaves}
    \cup {Obj(<< <<K, Obj(<< <<K, v>> >>)>> >>) : v \in MatcherAtoms}
    \cup {Obj(<< <<HasOwnPropertyName, Num(1)>>, <<K, v>> >>) : v \in MatcherAtoms}
    \cup {Obj(<< >>)}
MatcherQueries ==
  MatcherAtoms
    \cup {Obj(<< <<K, v>> >>) : v \in MatcherAtoms}
    \cup {Obj(<< <<K, Obj(<< <<K, v>> >>)>> >>) : v \in MatcherAtoms}
    \cup {Obj(<< >>)}

\* Both matchers on one pair: the outcome's kind is what _checkMatch gave,
\* its value the document value, and it carries what _checkLike gave.
checkBoth(docValue, queryValue) ==
  Call("check", << >>, queryValue, NoEnv,
       Result(Outcome(_checkMatch(docValue, queryValue), docValue, << >>,
                      {_checkLike(docValue, queryValue)}),
              files, dirs, now, faults))

NextMatchers ==
  \E docValue \in MatcherDocs, queryValue \in MatcherQueries :
    checkBoth(docValue, queryValue)

SpecMatchers == Init /\ [][NextMatchers]_vars

(***************************************************************************)
(* The legacy API (DocumentDatabase of db.document.js).  SpecLegacy makes   *)
(* documents with newDoc, reads them with getDoc and lists them with       *)
(* getAllDocs, whose file reads complete in any order.                     *)
(***************************************************************************)
\* process.cwd() and this.paths, the directory of the collection.
cwd == rootDbPath
paths == collectionPath

\* generateId(): random hexadecimal text, here one of two.
GeneratedIds == { <<"e", "1">>, <<"e", "2">> }

IdName == <<"_", "i", "d">>
DataName == <<"d", "a", "t", "a">>

\* The file newDoc writes: the identifier itself, taken as a path (relative
\* to the working directory), or <paths>/<idBuild>.json when no identifier
\* is given ('' stands for every value that is not a non-empty string).
newDocPath(id, idBuild) ==
  IF id = << >> THEN PathJoin(paths, idBuild \o JsonSuffix) ELSE PathJoin(cwd, id)

\* DocumentDatabase.newDoc.  idBuild: what generateId() returned; wr: what
\* the environment does to the write.
newDocOutcome(id, data, idBuild, wr) ==
  LET dataDocs == newDocPath(id, idBuild)
      same(out) == Result(out, files, dirs, now, faults) IN
  IF data.t \notin {"obj", "null"}
  THEN same(Outcome("not an object", Undefined, << >>, {}))
  ELSE IF dataDocs \in DOMAIN files \/ dataDocs \in dirs
  THEN same(Outcome("same id", Undefined, << >>, {}))
  ELSE
    LET w == writeFile(files, dirs, dataDocs, Stringify(data, 0), wr) IN
    IF w.ok
    THEN Result(Outcome("ok",
                        Obj(<< <<IdName, Str(idBuild)>>, <<DataName, data>> >>),
                        dataDocs, {}),
                w.files, dirs, now, faults)
    ELSE Result(Outcome("newDoc failed", Undefined, << >>, {"write"}),
                w.files, dirs, now, faults + 1)

\* DocumentDatabase.getDoc.  rd: whether the environment lets the file be
\* read.
getDocOutcome(id, rd) ==
  LET dataDocs == PathJoin(paths, id \o JsonSuffix) IN
  IF id = << >>
  THEN Outcome("no id", Undefined, << >>, {})
  ELSE IF dataDocs \notin DOMAIN files /\ dataDocs \notin dirs
  THEN Outcome("not found", Undefined, << >>, {})
  ELSE IF dataDocs \in dirs \/ ~rd
  THEN Outcome("getDoc failed", Undefined, << >>, {"read"})
  ELSE LET parsed == JsonParse(files[dataDocs]) IN
       IF parsed.ok THEN Outcome("ok", parsed.val, << >>, {})
       ELSE Outcome("getDoc failed", Undefined, << >>, {"parse"})

newDoc(id, data, idBuild, wr) ==
  Call("newDoc", id, data, [NoEnv EXCEPT !.wr = wr],
       newDocOutcome(id, data, idBuild, wr))

getDoc(id, rd) ==
  Call("getDoc", id, Undefined, [NoEnv EXCEPT !.rd = rd],
       Result(getDocOutcome(id, rd), files, dirs, now, faults))

\* The reads of the getAllDocs call in flight that have not completed.
Outstanding ==
  {i \in DOMAIN scanning.rdr : i \notin scanning.done \cup scanning.failed}

\* getAllDocs up to the end of the promise's executor: the directory is
\* listed; one read per entry is started by rdr.map(async ...), none
\* awaited.  A listing that fails rejects the promise.
getAllDocsStart(rdr, readdirOk) ==
  /\ Outstanding = {}
  /\ scanning' =
       IF paths \in dirs /\ readdirOk
       THEN [NoScan EXCEPT !.pc = "reading", !.rdr = rdr]
       ELSE [NoScan EXCEPT !.pc = "reading", !.settled = "rejected"]
  /\ UNCHANGED <<files, dirs, now, faults, last, pending, _collectionsCache>>

\* The read of the i-th entry completes and the rest of its callback runs:
\* JSON.parse, data.push, and resolve(data) when i is the last index.  A
\* read or a parse that throws rejects the callback's own promise, which
\* nothing handles.
readComplete(i, rd) ==
  /\ i \in Outstanding
  /\ LET a == PathJoin(paths, scanning.rdr[i])
         parsed == IF a \in DOMAIN files /\ rd THEN JsonParse(files[a])
                   ELSE [ok |-> FALSE, val |-> Null]
         pushed == Append(scanning.data,
                          [_id |-> scanning.rdr[i], data |-> parsed.val]) IN
     scanning' =
       IF ~parsed.ok
       THEN [scanning EXCEPT !.failed = @ \cup {i}]
       ELSE IF i = Len(scanning.rdr) /\ scanning.settled = "no"
       THEN [scanning EXCEPT !.done = @ \cup {i}, !.data = pushed,
                             !.settled = "resolved", !.result = pushed]
       ELSE [scanning EXCEPT !.done = @ \cup {i}, !.data = pushed]
  /\ UNCHANGED <<files, dirs, now, faults, last, pending, _collectionsCache>>

LegacyIds == { << >>, <<"u">> }
LegacyData == { Obj(<< <<K, Num(1)>> >>), Obj(<< >>), Arr(<< >>) }

NewDocCall ==
  \E id \in LegacyIds, data \in LegacyData, idBuild \in GeneratedIds :
    \E wr \in (IF faults < MaxFaults THEN WriteOutcomes ELSE {"ok"}) :
      newDoc(id, data, idBuild, wr)

GetDocCall ==
  \E id \in LegacyIds \cup GeneratedIds, rd \in BOOLEAN : getDoc(id, rd)

ReadCompletes == \E i \in Outstanding, rd \in BOOLEAN : readComplete(i, rd)

NextLegacy ==
  \/ NewDocCall
  \/ GetDocCall
  \/ \E rdr \in Orders(readdir(paths)), readdirOk \in BOOLEAN :
       getAllDocsStart(rdr, readdirOk)
  \/ ReadCompletes

SpecLegacy == Init /\ [][NextLegacy]_vars

\* Every read that was started completes.
SpecLegacyFair == SpecLegacy /\ WF_vars(ReadCompletes)

(***************************************************************************)
(* Properties.                                                             *)
(***************************************************************************)
Accepted(docId) == _getDocPath(docId).ok
DocFile(docId) == _getDocPath(docId).path

\* What get returns when the environment lets the file be read and no
\* repair succeeds.
GetOf(docId) == getOutcome(docId, TRUE, RepairFails)

\* C2: round trip.  When set(id, v) has returned success, get(id) returns a
\* value equal to v, and the file holds the text of v alone, whatever it
\* held before.
C2_RoundTrip ==
  (last.op = "set" /\ last.out.kind = "ok") =>
    /\ GetOf(last.docId) = Outcome("ok", last.data, << >>, {})
    /\ files[DocFile(last.docId)] = Stringify(last.data, 0)

C2_Witness ==
  /\ last.op = "set" /\ last.out.kind = "ok" /\ last.data.t = "obj"
  /\ faults = 1
  /\ Cardinality(readdir(collectionPath)) = 2

\* The document files of the collection, and the identifiers derived from
\* their names.
DocNames ==
  {n \in readdir(collectionPath) :
     EndsWith(n, JsonSuffix) /\ PathJoin(collectionPath, n) \in DOMAIN files}
Stem(name) == SubSeq(name, 1, Len(name) - Len(JsonSuffix))
PresentIds == {Stem(n) : n \in DocNames}

BagOfSeq(s) ==
  [v \in {s[i] : i \in DOMAIN s} |-> Cardinality({i \in DOMAIN s : s[i] = v})]
BagOfGets(ids) ==
  [v \in {GetOf(id).value : id \in ids} |->
     Cardinality({id \in ids : GetOf(id).value = v})]

\* all() has run over files that successful sets wrote, every read ok.
CleanScan ==
  /\ last.op = "all" /\ last.data = Undefined
  /\ faults = 0
  /\ \A n \in DOMAIN last.env.scan : last.env.scan[n] # Unreadable

\* C5 as claimed: all() with no query returns the same documents as get on
\* every identifier present in the collection.
C5_ScanEqualsGets ==
  CleanScan => BagOfSeq(last.out.value.items) = BagOfGets(PresentIds)

FalsyValues == {Null, Bool(FALSE), Num(0), Str(<< >>)}

\* C5 as amended: all() with no query returns the documents that get
\* returns for the identifiers present, except those whose value is null,
\* false, 0 or the empty string, which the scan leaves out.
C5_ScanEqualsTruthyGets ==
  CleanScan =>
    BagOfSeq(last.out.value.items) =
      BagOfGets({id \in PresentIds : GetOf(id).value \notin FalsyValues})

C5_Witness ==
  /\ CleanScan
  /\ Len(last.out.value.items) = 1
  /\ \E id \in PresentIds : GetOf(id).value = Null
  /\ DOMAIN last.env.scan # {}
  /\ GetOf(Stem(CHOOSE n \in DocNames : TRUE)).kind = "ok"

\* C6: absence is not an error.  get of an accepted identifier with no file
\* returns null, del returns the not-found flag, and neither changes the
\* file system; so it is again on every repetition.
C6_AbsenceIsNotAnError ==
  [][ /\ ( /\ last'.op = "get" /\ Accepted(last'.docId)
           /\ DocFile(last'.docId) \notin DOMAIN files )
         => /\ last'.out = Outcome("ok", Null, << >>, {})
            /\ files' = files /\ dirs' = dirs
      /\ ( /\ last'.op = "del" /\ Accepted(last'.docId)
           /\ DocFile(last'.docId) \notin DOMAIN files )
         => /\ last'.out.kind = "not found"
            /\ files' = files /\ dirs' = dirs ]_vars

C6_Witness ==
  /\ last.op = "del" /\ last.out.kind = "not found"
  /\ DOMAIN files # {}

\* The primary write of the last set failed; its backup write succeeded.
PrimaryWriteFailed == last.op = "set" /\ last.env.wr # "ok"
BackupWriteSucceeded ==
  \/ last.env.bk = "ok"
  \/ last.env.bk = "mkdir" /\ backupDirPath \in dirs

\* C8: when the primary write failed and the backup write succeeded, the
\* file <root>/.backup/<collection>/<sanitizedId>_<millis>.json.bak exists
\* and parses to the value that was to be set.
C8_BackupHoldsData ==
  (PrimaryWriteFailed /\ BackupWriteSucceeded) =>
    LET p == Append(backupDirPath,
                    sanitizedDocId(last.docId) \o <<"_">> \o NumToChars(now)
                      \o BakSuffix) IN
    /\ p \in DOMAIN files
    /\ JsonParse(files[p]).ok
    /\ JsonParse(files[p]).val = last.data
    /\ last.out.path = p

C8_Witness ==
  /\ PrimaryWriteFailed /\ BackupWriteSucceeded
  /\ last.docId = <<"a", "<">>
  /\ last.data.t = "obj"
  /\ last.env.wr = "half"

\* C9: when the primary write failed, set does not return success; it
\* throws the backed-up error exactly when the backup write succeeded, and
\* otherwise one error carrying the write error and the backup error.
C9_FailedWriteIsReported ==
  PrimaryWriteFailed =>
    /\ last.out.kind # "ok"
    /\ last.out.kind = "backed up" <=> BackupWriteSucceeded
    /\ ~BackupWriteSucceeded =>
         /\ last.out.kind = "backup failed"
         /\ last.out.carries = {"write", "backup"}

C9_Witness ==
  /\ PrimaryWriteFailed /\ ~BackupWriteSucceeded
  /\ last.out.kind = "backup failed"

\* C10 as claimed: a failed set whose backup succeeds writes its backup to
\* a path at which no backup file was before.
C10_BackupPathIsNew ==
  [][ (last'.op = "set" /\ last'.out.kind = "backed up")
        => last'.out.path \notin DOMAIN files ]_vars

CallsById == {"set", "get", "del"}
Unchanged == files' = files /\ dirs' = dirs

\* Every file is in the collection directory or is a backup file of the
\* backup directory, and no other directory was made.
FilesInPlace ==
  /\ \A p \in DOMAIN files :
       \/ Dirname(p) = collectionPath
       \/ Dirname(p) = backupDirPath /\ EndsWith(Basename(p), BakSuffix)
  /\ dirs \subseteq Ancestors(collectionPath) \cup Ancestors(backupDirPath)

\* The file name of every accepted identifier of the model contains no
\* separator and no '..'.
FileNamesHaveNoDotDot ==
  \A docId \in DOMAIN DocPaths : DocPaths[docId].ok =>
    /\ Dirname(DocPaths[docId].path) = collectionPath
    /\ ~Includes(Basename(DocPaths[docId].path), <<"/">>)
    /\ ~Includes(Basename(DocPaths[docId].path), <<"\\">>)
    /\ ~Includes(Basename(DocPaths[docId].path), <<".", ".">>)

\* C1 as claimed: the file name of an accepted identifier contains no '/',
\* no '\' and no '..', the path is a direct child of the collection
\* directory, and every file is in the collection directory or is a backup
\* file of the backup directory.
C1_FileNameHasNoDotDot == FileNamesHaveNoDotDot /\ FilesInPlace

\* The path of every accepted identifier of the model is the collection
\* directory followed by one name, which ends in '.json', contains no
\* separator, and contains no '..' before the '.json'.
PathsAreDirectChildren ==
  \A docId \in DOMAIN DocPaths : DocPaths[docId].ok =>
    /\ Dirname(DocPaths[docId].path) = collectionPath
    /\ Len(DocPaths[docId].path) = Len(collectionPath) + 1
    /\ EndsWith(Basename(DocPaths[docId].path), JsonSuffix)
    /\ ~Includes(Basename(DocPaths[docId].path), <<"/">>)
    /\ ~Includes(Basename(DocPaths[docId].path), <<"\\">>)
    /\ ~Includes(Stem(Basename(DocPaths[docId].path)), <<".", ".">>)

\* C1 as amended: the path of an accepted identifier is a direct child of
\* the collection directory: its file name contains no '/' and no '\', the
\* sanitised identifier before '.json' contains no '..' (the file name
\* itself does when the identifier ends in '.'), and every file is in the
\* collection directory or is a backup file of the backup directory.
C1_PathInsideCollection == PathsAreDirectChildren /\ FilesInPlace

C1_Witness ==
  /\ last.op = "set" /\ last.out.kind = "backed up"
  /\ Includes(last.docId, <<"/">>)
  /\ DocFile(last.docId) \in DOMAIN files

Traversal == <<".", ".", "/">>

\* C3 as claimed: for an identifier that contains '../', set, get and del
\* fail with the invalid-identifier error and change no file.
C3_TraversalIsInvalidIdentifier ==
  [][ (last'.op \in CallsById /\ Includes(last'.docId, Traversal))
        => (last'.out.kind = "InvalidIdentifier" /\ Unchanged) ]_vars

\* C3 as amended: for an identifier that contains '../', get and del fail
\* with the invalid-identifier error, and so does set of a JSON value;
\* set(id, undefined) fails with the invalid-input error; none changes a
\* file or a directory.
C3_TraversalIsRejected ==
  [][ (last'.op \in CallsById /\ Includes(last'.docId, Traversal))
        => /\ Unchanged
           /\ IF last'.op = "set" /\ last'.data = Undefined
              THEN last'.out.kind = "InvalidInput"
              ELSE last'.out.kind = "InvalidIdentifier" ]_vars

C3_Witness ==
  /\ last.op = "set" /\ last.data # Undefined
  /\ Includes(last.docId, Traversal)
  /\ last.out.kind = "InvalidIdentifier"
  /\ DOMAIN files # {}

\* C4 as claimed: for an identifier longer than 200 characters, set, get
\* and del fail with the invalid-identifier error and change no file.
C4_LongIsInvalidIdentifier ==
  [][ (last'.op \in CallsById /\ Len(last'.docId) > MaxIdLength)
        => (last'.out.kind = "InvalidIdentifier" /\ Unchanged) ]_vars

\* C4 as amended: for an identifier whose sanitised form is longer than 200
\* characters, get and del fail with the invalid-identifier error, and so
\* does set of a JSON value; set(id, undefined) fails with the
\* invalid-input error; none changes a file or a directory.
C4_LongSanitizedIsRejected ==
  [][ (last'.op \in CallsById /\ Len(sanitizedDocId(last'.docId)) > MaxIdLength)
        => /\ Unchanged
           /\ IF last'.op = "set" /\ last'.data = Undefined
              THEN last'.out.kind = "InvalidInput"
              ELSE last'.out.kind = "InvalidIdentifier" ]_vars

C4_Witness ==
  /\ last.op = "del"
  /\ last.docId = Repeat("a", MaxIdLength + 1)
  /\ last.out.kind = "InvalidIdentifier"
  /\ DOMAIN files # {}

\* C7: set(id, undefined) fails with the invalid-input error, for every
\* identifier, and changes no file and no directory.
C7_UndefinedIsInvalidInput ==
  [][ (last'.op = "set" /\ last'.data = Undefined)
        => (last'.out.kind = "InvalidInput" /\ Unchanged) ]_vars

C7_Witness ==
  /\ last.op = "set" /\ last.data = Undefined
  /\ ~Accepted(last.docId)
  /\ last.out.kind = "InvalidInput"
  /\ DOMAIN files # {}
(***************************************************************************)
(* Properties of the scan with a query (SpecQuery).                        *)
(***************************************************************************)
\* The match block and the like block of a query {search: {match, like}}.
MatchOf(query) == Prop(Prop(query, SearchName), MatchName)
LikeOf(query) == Prop(Prop(query, SearchName), LikeName)

\* The last call is a scan with a query.
QueryScan == last.op = "all" /\ last.data # Undefined

\* The documents the collection holds that a scan collects when it is given
\* no query, by identifier.
ScannedIds == {id \in PresentIds : ~Falsy(GetOf(id).value)}

\* d has its own field k and the matcher holds of d[k], for every key k of
\* the match block and of the like block.
PassesEveryField(d, query) ==
  /\ MatchOf(query) # Undefined =>
       \A i \in DOMAIN ForIn(MatchOf(query)) :
         /\ hasOwnProperty(d, ForIn(MatchOf(query))[i][1])
         /\ _checkMatch(GetProp(d, ForIn(MatchOf(query))[i][1]),
                        ForIn(MatchOf(query))[i][2]) = "true"
  /\ LikeOf(query) # Undefined =>
       \A i \in DOMAIN ForIn(LikeOf(query)) :
         /\ hasOwnProperty(d, ForIn(LikeOf(query))[i][1])
         /\ _checkLike(GetProp(d, ForIn(LikeOf(query))[i][1]),
                       ForIn(LikeOf(query))[i][2]) = "true"

\* C11 as claimed: all({search: {match: M, like: L}}) returns exactly the
\* decoded documents that have every field of M and of L as an own field
\* and pass _checkMatch on every field of M and _checkLike on every field
\* of L.
C11_ScanReturnsPassingDocuments ==
  QueryScan =>
    /\ last.out.kind = "ok"
    /\ BagOfSeq(last.out.value.items) =
         BagOfGets({id \in ScannedIds : PassesEveryField(GetOf(id).value, last.data)})
\* The last call is a scan that returned, with a query of the one field k
\* in one block and nothing in the other block.
OneField(block, other) ==
  /\ QueryScan /\ last.out.kind = "ok"
  /\ other = Undefined /\ block # Undefined /\ block.t = "obj"
  /\ Len(block.fields) = 1

Returned(d) == \E i \in DOMAIN last.out.value.items : last.out.value.items[i] = d

\* C12: for a primitive or null query value q, the document d is kept by
\* match {k: q} exactly when d has the field k and d[k] is an array that
\* contains q or is not an array and equals q; so {category:'Electronics',
\* tags:['a','b']} is kept by {category:'Electronics'} and by {tags:'a'} and
\* dropped by {category:'Books'}.
C12_PrimitiveMatch ==
  (OneField(MatchOf(last.data), LikeOf(last.data))
     /\ IsPrimitive(MatchOf(last.data).fields[1][2])) =>
    LET k == MatchOf(last.data).fields[1][1]
        q == MatchOf(last.data).fields[1][2] IN
    \A id \in ScannedIds :
      LET d == GetOf(id).value IN
      Returned(d) <=>
        /\ hasOwnProperty(d, k)
        /\ IF GetProp(d, k).t = "arr"
           THEN \E i \in DOMAIN GetProp(d, k).items : GetProp(d, k).items[i] = q
           ELSE GetProp(d, k) = q

C12_Witness ==
  /\ OneField(MatchOf(last.data), LikeOf(last.data))
  /\ MatchOf(last.data) = Obj1(TagsName, A)
  /\ Returned(Obj2(CategoryName, Str(Electronics), TagsName, Arr(<<A, B>>)))
  /\ Returned(Obj2(CategoryName, Str(Books), TagsName, Arr(<<B, A>>)))
\* The last call is a scan that returned, with a match query of one field
\* whose value is an array, and no like block.
ArrayMatch ==
  /\ OneField(MatchOf(last.data), LikeOf(last.data))
  /\ MatchOf(last.data).fields[1][2].t = "arr"

ContainsIgnoringCase(s, q) ==
  \E i \in 1..(Len(s) - Len(q) + 1) :
    \A j \in 1..Len(q) : toLowerCase(s)[i + j - 1] = toLowerCase(q)[j]

\* C14: for a text query value q, the document d is kept by like {k: q}
\* exactly when d has the field k and d[k] is a text whose lowercase form
\* contains the lowercase form of q, or an array with a text element whose
\* lowercase form contains it; so {name:'Laptop Pro'} is kept by
\* like {name:'pro'} and dropped by like {name:'phone'}.
C14_TextLike ==
  (OneField(LikeOf(last.data), MatchOf(last.data))
     /\ LikeOf(last.data).fields[1][2].t = "str") =>
    LET k == LikeOf(last.data).fields[1][1]
        q == LikeOf(last.data).fields[1][2].s IN
    \A id \in ScannedIds :
      LET d == GetOf(id).value IN
      Returned(d) <=>
        /\ hasOwnProperty(d, k)
        /\ \/ GetProp(d, k).t = "str" /\ ContainsIgnoringCase(GetProp(d, k).s, q)
           \/ /\ GetProp(d, k).t = "arr"
              /\ \E i \in DOMAIN GetProp(d, k).items :
                   /\ GetProp(d, k).items[i].t = "str"
                   /\ ContainsIgnoringCase(GetProp(d, k).items[i].s, q)

C14_Witness ==
  /\ OneField(LikeOf(last.data), MatchOf(last.data))
  /\ LikeOf(last.data) = Obj1(NameName, Str(<<"p", "r", "o">>))
  /\ Returned(Obj1(NameName, Str(LaptopPro)))
  /\ GetOf(<<"b">>).value # Null /\ ~Returned(GetOf(<<"b">>).value)
(***************************************************************************)
(* Properties of the scan over entries it cannot use (SpecScan).           *)
(***************************************************************************)
\* What the last scan decoded from the entry n, given what the environment
\* did to it.
DecodedEntry(n) ==
  tryRepairAndParseJson(files[PathJoin(collectionPath, n)], last.env.scan[n])

\* The entry n of the last scan is a '.json' file that was read and decoded
\* to a value the scan collects.
UsableEntry(n) ==
  /\ EndsWith(n, JsonSuffix)
  /\ PathJoin(collectionPath, n) \in DOMAIN files
  /\ last.env.scan[n] # Unreadable
  /\ DecodedEntry(n).ok
  /\ ~Falsy(DecodedEntry(n).val)

UsableEntries == SelectSeq(last.env.order, UsableEntry)

GetOfCorruptFile ==
  /\ last.op = "get"
  /\ DocPaths[last.docId].ok
  /\ DocPaths[last.docId].path \in DOMAIN files
  /\ last.env.rd
  /\ ~JsonParse(files[DocPaths[last.docId].path]).ok

\* C16: a get of a file whose text is not valid JSON returns the repaired
\* value when the repair and the second parse succeed; otherwise it fails
\* and the error it throws carries the original parse error, not the error
\* of the repair.
C16_GetRepairsOrReportsParseError ==
  GetOfCorruptFile =>
    IF last.env.repair # RepairFails
    THEN last.out.kind = "ok" /\ last.out.value = last.env.repair
    ELSE last.out.kind = "get failed" /\ last.out.carries = {"parse"}

C16_Witness ==
  /\ GetOfCorruptFile
  /\ last.env.repair = RepairFails
  /\ last.out.kind = "get failed"

C16_WitnessRepaired ==
  /\ GetOfCorruptFile
  /\ last.env.repair # RepairFails
  /\ last.out.kind = "ok"
(***************************************************************************)
(* Properties of identifiers that share a file (Spec).                     *)
(***************************************************************************)
\* Two identifiers that differ by a reserved character.
CollidingIds == { <<"a">>, <<"a", "<">> }

\* The step is a set on one of the colliding identifiers, its write let
\* through, right after a successful set on the other.
SetAfterCollidingSet ==
  /\ last.op = "set" /\ last.out.kind = "ok"
  /\ last'.op = "set" /\ last'.data # Undefined /\ last'.env.wr = "ok"
  /\ last.docId \in CollidingIds /\ last'.docId \in CollidingIds
  /\ last'.docId # last.docId

BothReturned == \A c \in Callers : pending[c].pc = "done"
LastWriter == CHOOSE c \in Callers : pending[c].seq = Cardinality(Callers)

\* C18 as claimed: when two concurrent set calls on one identifier have both
\* returned success, get returns the value of the call whose write of the
\* file completed last.
C18_LastWriteWins ==
  BothReturned =>
    GetOf(<<"a">>) = Outcome("ok", pending[LastWriter].data, << >>, {})
(***************************************************************************)
(* Properties of delCol (SpecCol).                                         *)
(***************************************************************************)
DelColSucceeded == last.op = "delCol" /\ last.out.kind = "ok"

Gone(dirPath) ==
  /\ \A d \in dirs : ~Under(d, dirPath)
  /\ \A p \in DOMAIN files : ~Under(p, dirPath)

\* C19 as claimed: after delCol returned success, neither the collection
\* directory nor the collection's backup directory exists, and the cached
\* instance is dropped.
C19_DelColRemovesEverything ==
  DelColSucceeded =>
    /\ Gone(collectionPath)
    /\ Gone(backupDirPath)
    /\ collectionName \notin _collectionsCache

\* C19: after delCol returned success the collection directory is gone and
\* the cached instance is dropped; the backup directory is gone unless its
\* removal failed, and then it is left whole.
C19_DelColRemovesCollection ==
  DelColSucceeded =>
    /\ Gone(collectionPath)
    /\ collectionName \notin _collectionsCache
    /\ last.env.rmBackup => Gone(backupDirPath)

C19_Witness ==
  /\ DelColSucceeded
  /\ last.env.rmBackup
  /\ faults = 1
  /\ now > 0
  /\ Gone(collectionPath) /\ Gone(backupDirPath)
(***************************************************************************)
(* Properties of the file name of a document (SpecIds).                    *)
(***************************************************************************)
\* The identifier with every separator and reserved character left out.
StrippedId(docId) == SelectSeq(StripReserved(docId), IsNotSeparator)

\* The identifier with '_' for every separator and the reserved characters
\* left out.
UnderscoredId(docId) ==
  LET Keep(i) == docId[i] \notin ReservedChars
      kept == SelectSeq([i \in 1..Len(docId) |-> i], Keep) IN
  [k \in 1..Len(kept) |->
     IF docId[kept[k]] = "/" \/ docId[kept[k]] = "\\" THEN "_"
     ELSE docId[kept[k]]]

\* The last call was a set that stored its document under the name stem
\* followed by '.json'.
StoredAs(stem) ==
  LET name == stem \o JsonSuffix IN
  /\ last.out.path = <<name>>
  /\ Append(collectionPath, name) \in DOMAIN files
  /\ files[Append(collectionPath, name)] = Stringify(last.data, 0)

SetSucceeded == last.op = "set" /\ last.out.kind = "ok"

\* C20 as claimed: a document is stored under its identifier with the
\* separators and the reserved characters stripped out, followed by '.json'.
C20_FileNameIsStrippedId == SetSucceeded => StoredAs(StrippedId(last.docId))

\* C20: a document is stored under its identifier with every separator
\* replaced by '_' and the reserved characters stripped out, followed by
\* '.json'.
C20_FileNameIsUnderscoredId == SetSucceeded => StoredAs(UnderscoredId(last.docId))

C20_Witness ==
  /\ SetSucceeded
  /\ last.docId = <<"/", "<">>
  /\ StoredAs(<<"_">>)
(***************************************************************************)
(* Properties of the null result of get (Spec).                            *)
(***************************************************************************)
GetReturnedNull == last.op = "get" /\ last.out = Outcome("ok", Null, << >>, {})

\* The last call was a get of an accepted identifier whose file, if there
\* is one, the environment let it read.
GetThatRead == last.op = "get" /\ Accepted(last.docId) /\ last.env.rd

\* The file of the last call's identifier exists and decodes to null.
StoredNull ==
  /\ DocFile(last.docId) \in DOMAIN files
  /\ tryRepairAndParseJson(files[DocFile(last.docId)], last.env.repair).ok
  /\ tryRepairAndParseJson(files[DocFile(last.docId)], last.env.repair).val = Null

\* C24 as claimed: get returns null only if no document file exists for the
\* identifier.
C24_NullMeansAbsent ==
  GetReturnedNull => DocFile(last.docId) \notin DOMAIN files

\* C24: get returns null exactly when no document file exists for the
\* identifier or the file decodes to null.
C24_NullMeansAbsentOrStoredNull ==
  GetThatRead =>
    (GetReturnedNull <=> (DocFile(last.docId) \notin DOMAIN files \/ StoredNull))

C24_Witness == GetThatRead /\ GetReturnedNull /\ StoredNull
(***************************************************************************)
(* Properties of the identifier derived from a file name (SpecIds).        *)
(***************************************************************************)
\* C25 as claimed: when set has stored a document, the stem of its file
\* name, the sanitised identifier, is an accepted identifier that maps to
\* the same file.
C25_StemIsAcceptedIdentifier ==
  SetSucceeded =>
    /\ Accepted(sanitizedDocId(last.docId))
    /\ DocFile(sanitizedDocId(last.docId)) = DocFile(last.docId)
(***************************************************************************)
(* Properties of the calls that read (SpecHeld).                           *)
(***************************************************************************)
\* C26 as claimed: get and all create, change and remove no file and no
\* directory, and a collection that is not listed by allCol is not listed
\* after them either.
C26_ReadsChangeNothing ==
  [][ last'.op \in {"get", "all"} =>
        /\ Unchanged
        /\ allColNames' = allColNames ]_vars
(***************************************************************************)
(* Properties of what set and del leave alone (Spec).                      *)
(***************************************************************************)
\* The paths whose file the step created, removed or changed.
ChangedPaths ==
  {p \in DOMAIN files \cup DOMAIN files' :
     \/ (p \in DOMAIN files) # (p \in DOMAIN files')
     \/ p \in DOMAIN files /\ p \in DOMAIN files' /\ files'[p] # files[p]}

\* C27: a set or del changes no file but the document file of its
\* identifier and, when the primary write of a set failed, one file of the
\* backup directory; the file of every document stored under another file
\* name is as it was, whether the call succeeded or failed.
C27_OtherDocumentsUntouched ==
  [][ last'.op \in {"set", "del"} =>
        /\ \A p \in ChangedPaths :
             \/ Accepted(last'.docId) /\ p = DocFile(last'.docId)
             \/ /\ last'.op = "set" /\ last'.env.wr # "ok"
                /\ Dirname(p) = backupDirPath
        /\ Cardinality({p \in ChangedPaths : Dirname(p) = backupDirPath}) <= 1
        /\ \A p \in DOMAIN files :
             (Dirname(p) = collectionPath
              /\ ~(Accepted(last'.docId) /\ p = DocFile(last'.docId)))
               => (p \in DOMAIN files' /\ files'[p] = files[p]) ]_vars

C27_Witness ==
  /\ last.op = "set" /\ last.out.kind = "backed up" /\ last.env.wr = "half"
  /\ Cardinality(DocNames) = 2
  /\ \E p \in DOMAIN files :
       /\ Dirname(p) = collectionPath /\ p # DocFile(last.docId)
       /\ JsonParse(files[p]).ok
(***************************************************************************)
(* Properties of the two matchers on one pair (SpecMatchers).              *)
(***************************************************************************)
\* C28: for a query value without arrays, when _checkMatch holds of a
\* document value and the query value, so does _checkLike.
C28_MatchImpliesLike ==
  (last.op = "check" /\ last.out.kind = "true") => last.out.carries = {"true"}

C28_Witness ==
  /\ last.op = "check" /\ last.out.kind = "true"
  /\ last.data = Obj(<< <<K, Str(<<"A">>)>> >>)
  /\ last.out.value = Obj(<< <<K, Arr(<<Str(<<"A">>), Null>>)>> >>)
  /\ last.out.carries = {"true"}
(***************************************************************************)
(* Properties of the legacy API (SpecLegacy, SpecLegacyFair).              *)
(***************************************************************************)
\* C21 as claimed: when newDoc(id, data) with a non-empty identifier has
\* resolved, the result's _id is the identifier and getDoc(id) resolves
\* with data.
C21_NewDocRoundTrip ==
  (last.op = "newDoc" /\ last.docId # << >> /\ last.out.kind = "ok") =>
    /\ GetProp(last.out.value, IdName) = Str(last.docId)
    /\ getDocOutcome(last.docId, TRUE) = Outcome("ok", last.data, << >>, {})

\* C22 as claimed: when getAllDocs has resolved, the list holds exactly one
\* entry for each entry of the directory listing.
C22_ListIsComplete ==
  scanning.settled = "resolved" =>
    /\ Len(scanning.result) = Len(scanning.rdr)
    /\ {scanning.result[i]._id : i \in DOMAIN scanning.result}
         = {scanning.rdr[i] : i \in DOMAIN scanning.rdr}

\* C23 as claimed: every getAllDocs call eventually settles.
C23_GetAllDocsSettles ==
  (scanning.pc = "reading") ~> (scanning.settled # "no")
====
